---- MODULE Spec2Model ----
(***************************************************************************)
(* Verification model of the EV truck tracking dashboard.                  *)
(*                                                                         *)
(* The module holds several specifications over one set of variables, one  *)
(* per part of the program:                                                *)
(*   SpecCalc     utils/calculations.py, applied to bounded input tables   *)
(*   SpecDb       utils/db.py: the cached reads, the writes, the healthcheck*)
(*   SpecSession  the session's trip and energy tables and the Trucks page *)
(*   SpecRoutes   pages/05_Routes.py: routes and their distance lookups     *)
(*   SpecLoad     pages/02_Trips.py: the paged load of the imports table    *)
(*   SpecLoc      pages/04_Locations.py: the locations table and its editor *)
(*   SpecApp      app.py and the page scripts run in one browser session    *)
(*   SpecLocShared  the Locations page open in several sessions at once      *)
(*   SpecFleet    the per-truck, per-customer, per-route and per-trip figures*)
(*   SpecTrips    pages/02_Trips.py: the cached load across reruns          *)
(***************************************************************************)
EXTENDS Integers, Sequences, FiniteSets, TLC

VARIABLES
    calc_in,        \* arguments of the calculation under test: [trips, energy, ef]
    calc_out,       \* what the last calculation returned: [op, ...]
    db_table,       \* the probe table in the hosted database: id -> version, 0 = no row
    db_up,          \* whether the database answers requests
    creds,          \* whether SUPABASE_URL and SUPABASE_ANON_KEY are set
    client_cached,  \* whether st.cache_resource holds the client of get_supabase
    fetch_cache,    \* st.cache_data of fetch_table: key -> [at, rows], at = -1: no entry
    now,            \* the clock, in seconds
    filled,         \* history: per key, the last call that queried and stored rows
    last_call,      \* history: the last call of fetch_table or connection_healthcheck
    session_state,  \* st.session_state: trips_data, energy_consumption, emission_factor,
                    \* trucks_data, locations_data, routes_data
    trucks_page,    \* the Trucks page while it is shown: what it offers for download
    google_api_key, \* whether GOOGLE_MAPS_API_KEY is configured
    distance_lookups, \* history: the distance lookups of the last action of the Routes page
    routes_edit,    \* history: the search text and routes_data before the last editor change
    route_writes,   \* history: the routes the last action created or updated, each with
                    \* what calculate_distance_google_maps returned for it, if called
    imports_total,  \* the number of rows of the imports table
    load,           \* _load_all_imports: its arguments, the locals of fetch_all, its position
    trips_page,     \* what the Trips page shows after the load: "none", "error", "analytics"
    locations_table, \* the rows of the `locations` table in the database
    locations_df,   \* st.session_state.locations_df
    original_df,    \* st.session_state.original_df
    loc_writes,     \* history: the payloads the last run of the Locations page wrote
    loc_errors,     \* history: the number of errors that run reported
    last_run,       \* history: the script executed last and whether it raised
    app_runs,       \* history: how often app.py has run in the session
    seedings,       \* history: how often app.py stored the default energy rows and
                    \* the sample trips
    session_dfs,    \* locations_df of each of several browser sessions
    session_origs,  \* original_df of each of those sessions
    loc_saves,      \* history: the Save Edits runs that wrote the row with id 1
    trips_cache,    \* st.cache_data of _load_all_imports(): [at, result], at = -1: no entry
    trips_clock,    \* the clock of the Trips page's server, in seconds
    trips_db,       \* the imports table as the loader finds it: [creds, up, tms_exposed, rows]
    trips_rerun     \* history: the last rerun of the Trips page

calcVars == <<calc_in, calc_out>>

dbVars == <<db_table, db_up, creds, client_cached, fetch_cache, now, filled, last_call>>

sessVars == <<session_state, trucks_page>>

routeVars == <<google_api_key, distance_lookups, routes_edit, route_writes>>

loadVars == <<imports_total, load, trips_page>>

locVars == <<locations_table, locations_df, original_df, loc_writes, loc_errors>>

appVars == <<last_run, app_runs, seedings>>

sharedVars == <<session_dfs, session_origs, loc_saves>>

tripsVars == <<trips_cache, trips_clock, trips_db, trips_rerun>>

vars == <<calcVars, dbVars, sessVars, routeVars, loadVars, locVars, appVars, sharedVars, tripsVars>>

\* what the operations of one part leave alone: the variables of the other parts
nonCalcVars == <<dbVars, sessVars, routeVars, loadVars, locVars, appVars, sharedVars, tripsVars>>

nonDbVars == <<calcVars, sessVars, routeVars, loadVars, locVars, appVars, sharedVars, tripsVars>>

nonSessVars == <<calcVars, dbVars, routeVars, loadVars, locVars, appVars, sharedVars, tripsVars>>

\* the Routes page works on the session: what it leaves alone besides
nonRouteVars == <<calcVars, dbVars, trucks_page, loadVars, locVars, appVars, sharedVars, tripsVars>>

nonLoadVars == <<calcVars, dbVars, sessVars, routeVars, locVars, appVars, sharedVars, tripsVars>>

nonLocVars == <<calcVars, dbVars, sessVars, routeVars, loadVars, appVars, sharedVars, tripsVars>>

\* the scripts work on the session: what they leave alone besides
nonAppVars == <<calcVars, dbVars, trucks_page, routeVars, loadVars, locVars, sharedVars, tripsVars>>


nonSharedVars ==
    <<calcVars, dbVars, sessVars, routeVars, loadVars, locations_df, original_df,
      loc_writes, loc_errors, appVars, tripsVars>>

\* the reruns of the Trips page: what they leave alone besides
nonTripsVars ==
    <<calcVars, dbVars, sessVars, routeVars, imports_total, load, locVars, appVars,
      sharedVars>>

----------------------------------------------------------------------------
(* Numbers.  A float is modelled as an exact fraction <<n, d>> in lowest   *)
(* terms with d > 0; the IEEE specials that numpy/pandas produce on a      *)
(* division by zero are <<1, 0>> (inf), <<-1, 0>> (-inf) and <<0, 0>> (NaN).*)

Abs(x) == IF x < 0 THEN -x ELSE x

Sgn(x) == IF x > 0 THEN 1 ELSE IF x < 0 THEN -1 ELSE 0

RECURSIVE GCD(_, _)
GCD(a, b) == IF b = 0 THEN a ELSE GCD(b, a % b)

Norm(n, d) ==
    IF d = 0 THEN <<Sgn(n), 0>>
    ELSE LET g == GCD(Abs(n), Abs(d))
         IN  <<Sgn(d) * (n \div g), Abs(d) \div g>>

Q(i) == <<i, 1>>

Zero == Q(0)

NaN == <<0, 0>>

IsFinite(a) == a[2] # 0

IsNaN(a) == a = NaN

QAdd(a, b) ==
    IF IsFinite(a) /\ IsFinite(b) THEN Norm(a[1] * b[2] + b[1] * a[2], a[2] * b[2])
    ELSE IF IsNaN(a) \/ IsNaN(b) \/ (~IsFinite(a) /\ ~IsFinite(b) /\ a # b) THEN NaN
    ELSE IF IsFinite(a) THEN b ELSE a

QNeg(a) == <<-a[1], a[2]>>

QSub(a, b) == QAdd(a, QNeg(b))

QMul(a, b) ==
    IF IsFinite(a) /\ IsFinite(b) THEN Norm(a[1] * b[1], a[2] * b[2])
    ELSE IF IsNaN(a) \/ IsNaN(b) \/ a[1] = 0 \/ b[1] = 0 THEN NaN
    ELSE <<Sgn(a[1]) * Sgn(b[1]), 0>>

\* float division as numpy and pandas do it: x/0 is +-inf, 0/0 is NaN
QDiv(a, b) ==
    IF IsFinite(a) /\ IsFinite(b)
    THEN (IF b[1] = 0 THEN <<Sgn(a[1]), 0>> ELSE Norm(a[1] * b[2], a[2] * b[1]))
    ELSE IF IsNaN(a) \/ IsNaN(b) \/ ~IsFinite(b) THEN
         (IF IsFinite(a) /\ ~IsNaN(b) THEN Zero ELSE NaN)
    ELSE <<a[1] * (IF b[1] < 0 THEN -1 ELSE 1), 0>>

\* a < b on floats: every comparison with NaN is false
QLt(a, b) ==
    IF IsNaN(a) \/ IsNaN(b) THEN FALSE
    ELSE IF IsFinite(a) /\ IsFinite(b) THEN a[1] * b[2] < b[1] * a[2]
    ELSE IF ~IsFinite(a) THEN a[1] < 0 /\ a # b
    ELSE b[1] > 0

QGt(a, b) == QLt(b, a)

RECURSIVE Pow10(_)
Pow10(k) == IF k = 0 THEN 1 ELSE 10 * Pow10(k - 1)

\* round(x, k): to k decimals, a tie going to the even neighbour; inf and NaN stay
Round(a, k) ==
    IF ~IsFinite(a) THEN a
    ELSE LET n  == a[1] * Pow10(k)
             fl == n \div a[2]
             r2 == 2 * (n % a[2])
             m  == IF r2 < a[2] THEN fl
                   ELSE IF r2 > a[2] THEN fl + 1
                   ELSE IF fl % 2 = 0 THEN fl ELSE fl + 1
         IN  Norm(m, Pow10(k))

RECURSIVE QSum(_)
QSum(s) == IF s = <<>> THEN Zero ELSE QAdd(Head(s), QSum(Tail(s)))

QMean(s) == QDiv(QSum(s), Q(Len(s)))

----------------------------------------------------------------------------
(* Tables.  A DataFrame is a sequence of row records; the empty DataFrame  *)
(* is <<>>.  Plates are kept in the order pandas sorts group keys.         *)

PlateOrder == <<"A", "B", "C">>

Plates == {PlateOrder[i] : i \in 1..Len(PlateOrder)}

Customers == {"X", "Y"}

\* the distinct values of column plate_number, sorted (groupby's key order)
SortedPlates(df) ==
    SelectSeq(PlateOrder, LAMBDA p : \E i \in 1..Len(df) : df[i].plate_number = p)

RowsOf(df, p) == SelectSeq(df, LAMBDA r : r.plate_number = p)

\* the columns of a table, as sequences of floats
distance_km(df) == [i \in 1..Len(df) |-> Q(df[i].distance_km)]

tons_loaded(df) == [i \in 1..Len(df) |-> Q(df[i].tons_loaded)]

kwh_per_km(df) == [i \in 1..Len(df) |-> df[i].kwh_per_km]

\* df['distance_km'] * df['tons_loaded']
tkm(df) == [i \in 1..Len(df) |-> QMul(Q(df[i].distance_km), Q(df[i].tons_loaded))]

\* 'date': 'count' -- the number of rows of the group whose date is not null
count_date(rows) == Len(SelectSeq(rows, LAMBDA r : r.date # "NaT"))

----------------------------------------------------------------------------
(* utils/calculations.py                                                   *)

\* numpy.where(cond, a, b) on one element
np_where(cond, a, b) == IF cond THEN a ELSE b

\* energy_data.groupby('plate_number')['kwh_per_km'].mean(), at plate p
avg_efficiency(energy_data, p) == QMean(kwh_per_km(RowsOf(energy_data, p)))

\* mutant: the mean of all energy records
fleet_avg_of_records(energy_data) == QMean(kwh_per_km(energy_data))

\* avg_efficiency.mean(): the mean of the per-truck means
fleet_avg_efficiency(energy_data) ==
    LET ps == SortedPlates(energy_data)
    IN  QMean([i \in 1..Len(ps) |-> avg_efficiency(energy_data, ps[i])])

\* the left join of the per-truck mean, missing values filled with the fleet mean
joined_kwh_per_km(energy_data, p) ==
    IF RowsOf(energy_data, p) # <<>> THEN avg_efficiency(energy_data, p)
    ELSE fleet_avg_efficiency(energy_data)

total_kwh_of(total_km, kwh) == QMul(total_km, kwh)

\* mutant: the default factor 0.5 instead of the argument
kg_co2_of_default_factor(total_kwh, emission_factor) == QMul(total_kwh, <<1, 2>>)

kg_co2_of(total_kwh, emission_factor) == QMul(total_kwh, emission_factor)

kwh_per_tkm_of(total_kwh, total_tkm) ==
    np_where(QGt(total_tkm, Zero), QDiv(total_kwh, total_tkm), Zero)

kg_co2_per_tkm_of(kg_co2, total_tkm) ==
    np_where(QGt(total_tkm, Zero), QDiv(kg_co2, total_tkm), Zero)

kg_co2_per_km_of(kg_co2, total_km) ==
    np_where(QGt(total_km, Zero), QDiv(kg_co2, total_km), Zero)

\* the row of truck_stats for plate p
truck_stats_row(trips_data, energy_data, emission_factor, p) ==
    LET g         == RowsOf(trips_data, p)
        total_km  == QSum(distance_km(g))
        total_tkm == QSum(tkm(g))
        kwh       == IF energy_data # <<>> THEN joined_kwh_per_km(energy_data, p) ELSE Zero
        total_kwh == IF energy_data # <<>> THEN total_kwh_of(total_km, kwh) ELSE Zero
        kg_co2    == IF energy_data # <<>> THEN kg_co2_of(total_kwh, emission_factor) ELSE Zero
    IN  [ plate          |-> p,
          make           |-> "Electric Truck",
          total_trips    |-> count_date(g),
          total_km       |-> total_km,
          kwh_per_km     |-> kwh,
          total_kwh      |-> total_kwh,
          total_tkm      |-> total_tkm,
          kg_co2         |-> kg_co2,
          kwh_per_tkm    |-> IF energy_data # <<>>
                             THEN kwh_per_tkm_of(total_kwh, total_tkm) ELSE Zero,
          kg_co2_per_tkm |-> IF energy_data # <<>>
                             THEN kg_co2_per_tkm_of(kg_co2, total_tkm) ELSE Zero,
          kg_co2_per_km  |-> IF energy_data # <<>>
                             THEN kg_co2_per_km_of(kg_co2, total_km) ELSE Zero ]

calculate_truck_metrics(trips_data, energy_data, emission_factor) ==
    IF trips_data = <<>> THEN <<>>
    ELSE LET ps == SortedPlates(trips_data)
         IN  [i \in 1..Len(ps) |->
                 truck_stats_row(trips_data, energy_data, emission_factor, ps[i])]

Column(df, c) == [i \in 1..Len(df) |-> df[i][c]]

\* mutant: the division without its guard
ratio_unguarded(a, b) == QDiv(a, b)

\* Python's "a / b if b > 0 else 0"
ratio_if_positive(a, b) == IF QGt(b, Zero) THEN QDiv(a, b) ELSE Zero

\* the trips of one customer, in table order
customer_trips_of(trips_data, customer_name) ==
    SelectSeq(trips_data, LAMBDA r : r.customer = customer_name)

\* the CO2 of one trip: 0 unless its truck has an energy record
trip_co2(trip, energy_data, emission_factor) ==
    IF RowsOf(energy_data, trip.plate_number) # <<>>
    THEN QMul(QMul(Q(trip.distance_km), avg_efficiency(energy_data, trip.plate_number)),
              emission_factor)
    ELSE Zero

\* the loop of lines 174-187
customer_total_emissions(customer_trips, energy_data, emission_factor) ==
    IF energy_data = <<>> THEN Zero
    ELSE QSum([i \in 1..Len(customer_trips) |->
                  trip_co2(customer_trips[i], energy_data, emission_factor)])

calculate_customer_emissions(trips_data, energy_data, customer_name, emission_factor) ==
    IF trips_data = <<>> THEN <<>>
    ELSE LET ct == customer_trips_of(trips_data, customer_name)
             total_distance  == QSum(distance_km(ct))
             total_cargo     == QSum(tons_loaded(ct))
             total_tkm       == QSum(tkm(ct))
             total_emissions == customer_total_emissions(ct, energy_data, emission_factor)
         IN  IF ct = <<>>
             THEN [ customer_name      |-> customer_name,
                    total_trips        |-> 0,
                    total_distance_km  |-> Zero,
                    total_cargo_tons   |-> Zero,
                    total_tkm          |-> Zero,
                    total_emissions_kg |-> Zero,
                    emissions_per_ton  |-> Zero,
                    emissions_per_km   |-> Zero ]
             ELSE [ customer_name      |-> customer_name,
                    total_trips        |-> Len(ct),
                    total_distance_km  |-> Round(total_distance, 2),
                    total_cargo_tons   |-> Round(total_cargo, 2),
                    total_tkm          |-> Round(total_tkm, 2),
                    total_emissions_kg |-> Round(total_emissions, 2),
                    emissions_per_ton  |->
                        Round(ratio_if_positive(total_emissions, total_cargo), 2),
                    emissions_per_km   |->
                        Round(ratio_if_positive(total_emissions, total_distance), 2) ]

nunique(s) == Cardinality({s[i] : i \in 1..Len(s)})

\* (trips_data['distance_km'] * trips_data['tons_loaded']).sum(), before rounding
fleet_total_tkm(trips_data) == QSum(tkm(trips_data))

calculate_fleet_kpis(trips_data, energy_data, emission_factor) ==
    IF trips_data = <<>> THEN <<>>
    ELSE LET total_trips    == Len(trips_data)
             total_distance == QSum(distance_km(trips_data))
             total_cargo    == QSum(tons_loaded(trips_data))
             total_tkm      == fleet_total_tkm(trips_data)
             active_trucks  == nunique(Column(trips_data, "plate_number"))
             truck_metrics  ==
                 calculate_truck_metrics(trips_data, energy_data, emission_factor)
             has_energy     == energy_data # <<>> /\ truck_metrics # <<>>
             total_energy   ==
                 IF has_energy THEN QSum(Column(truck_metrics, "total_kwh")) ELSE Zero
             total_emissions ==
                 IF has_energy THEN QSum(Column(truck_metrics, "kg_co2")) ELSE Zero
             fleet_avg      ==
                 IF has_energy THEN QMean(Column(truck_metrics, "kwh_per_km")) ELSE Zero
         IN  [ total_trips       |-> total_trips,
               total_distance_km |-> Round(total_distance, 2),
               total_cargo_tons  |-> Round(total_cargo, 2),
               total_tkm         |-> Round(total_tkm, 2),
               active_trucks     |-> active_trucks,
               unique_customers  |-> nunique(Column(trips_data, "customer")),
               avg_load_per_trip |->
                   Round(ratio_if_positive(total_cargo, Q(total_trips)), 2),
               avg_distance_per_trip |->
                   Round(ratio_if_positive(total_distance, Q(total_trips)), 2),
               utilization_tkm_per_truck |->
                   Round(ratio_if_positive(total_tkm, Q(active_trucks)), 2),
               total_energy_kwh   |-> Round(total_energy, 2),
               total_emissions_kg |-> Round(total_emissions, 2),
               fleet_avg_efficiency_kwh_km |-> Round(fleet_avg, 3),
               energy_per_tkm    |-> Round(ratio_if_positive(total_energy, total_tkm), 3),
               emissions_per_tkm |-> Round(ratio_if_positive(total_emissions, total_tkm), 3),
               emissions_per_ton |-> Round(ratio_if_positive(total_emissions, total_cargo), 3) ]

\* (x - fleet_mean) / fleet_mean * 100, rounded to one decimal
vs_fleet(x, fleet_mean) == Round(QMul(QDiv(QSub(x, fleet_mean), fleet_mean), Q(100)), 1)

efficiency_category(x) ==
    IF QLt(x, Q(-10)) THEN "Excellent"
    ELSE IF QLt(x, Zero) THEN "Good"
    ELSE IF QLt(x, Q(10)) THEN "Average"
    ELSE "Needs Improvement"

benchmark_row(row, truck_metrics) ==
    LET e == vs_fleet(row.kwh_per_km, QMean(Column(truck_metrics, "kwh_per_km")))
    IN  [ plate                      |-> row.plate,
          kwh_per_km                 |-> row.kwh_per_km,
          kg_co2_per_km              |-> row.kg_co2_per_km,
          kg_co2_per_tkm             |-> row.kg_co2_per_tkm,
          efficiency_vs_fleet        |-> e,
          emissions_per_km_vs_fleet  |->
              vs_fleet(row.kg_co2_per_km, QMean(Column(truck_metrics, "kg_co2_per_km"))),
          emissions_per_tkm_vs_fleet |->
              vs_fleet(row.kg_co2_per_tkm, QMean(Column(truck_metrics, "kg_co2_per_tkm"))),
          efficiency_category        |-> efficiency_category(e) ]

benchmark_truck_performance(truck_metrics) ==
    IF truck_metrics = <<>> THEN <<>>
    ELSE [i \in 1..Len(truck_metrics) |-> benchmark_row(truck_metrics[i], truck_metrics)]

----------------------------------------------------------------------------
(* utils/db.py: state                                                      *)

MaxIds == 1

MaxTime == 90

TickSeconds == 30

\* @st.cache_data(ttl=60)
TTL == 60

Ids == 1..MaxIds

Versions == 1..2

\* the arguments of fetch_table that the program uses on the probe table: the
\* healthcheck's (select="*", limit=1) and load_ev_trucks_df's (order_by="plate")
CacheKeys == {[table |-> "ev.trucks", limit |-> 1, order_by |-> "None"],
              [table |-> "ev.trucks", limit |-> 0, order_by |-> "plate"]}

NoEntry == [at |-> -1, rows |-> {}]

NoFill == [at |-> -1, rows |-> {}, cleared |-> FALSE]

NoCall == [op |-> "none", key |-> "none", at |-> 0, queried |-> FALSE, raised |-> FALSE,
           rows |-> {}, prev |-> NoFill, up |-> TRUE]

\* the part of the state that utils/db.py owns, before any call
DbIdle ==
    /\ db_table = [i \in Ids |-> 0]
    /\ db_up = TRUE
    /\ creds = TRUE
    /\ client_cached = FALSE
    /\ fetch_cache = [k \in CacheKeys |-> NoEntry]
    /\ now = 0
    /\ filled = [k \in CacheKeys |-> NoFill]
    /\ last_call = NoCall

----------------------------------------------------------------------------
(* app.py, pages/03_Trucks.py, pages/06_Data_Import.py: state              *)

\* the Trucks page has not been rendered
NotRendered == [rendered |-> FALSE, offered |-> FALSE, download |-> <<>>]

\* the keys app.py creates, before the default energy rows are seeded
EmptySession ==
    [trips_data |-> <<>>, trucks_data |-> <<>>, locations_data |-> <<>>,
     routes_data |-> <<>>, energy_consumption |-> <<>>, emission_factor |-> <<1, 2>>]

SessIdle ==
    /\ session_state = EmptySession
    /\ trucks_page = NotRendered

----------------------------------------------------------------------------
(* pages/05_Routes.py, utils/google_maps.py: state                         *)

\* the routes editor has not changed routes_data in the last action
NoEdit == [applied |-> FALSE, search_route |-> <<>>, before |-> <<>>]

RoutesIdle ==
    /\ google_api_key = FALSE
    /\ distance_lookups = <<>>
    /\ routes_edit = NoEdit
    /\ route_writes = <<>>

----------------------------------------------------------------------------
(* pages/02_Trips.py: state                                                *)

\* _load_all_imports has not been called
NotLoading ==
    [pc |-> "idle", page_size |-> 1, max_pages |-> 1, total |-> 0, fetched |-> 0,
     pages |-> 0, frames |-> <<>>, empty_page |-> FALSE,
     env_creds |-> TRUE, attempt |-> 0, raised |-> {}, where_used |-> "none"]

LoadIdle ==
    /\ imports_total = 0
    /\ load = NotLoading
    /\ trips_page = "none"

----------------------------------------------------------------------------
(* pages/04_Locations.py: state                                            *)

LocIdle ==
    /\ locations_table = {}
    /\ locations_df = <<>>
    /\ original_df = <<>>
    /\ loc_writes = <<>>
    /\ loc_errors = 0

----------------------------------------------------------------------------
(* app.py and the page scripts: state                                      *)

\* no script has run
NoRun == [script |-> "none", raised |-> FALSE]

NoSeedings == [energy |-> 0, trips |-> 0]

AppIdle ==
    /\ last_run = NoRun
    /\ app_runs = 0
    /\ seedings = NoSeedings

----------------------------------------------------------------------------
(* pages/04_Locations.py in several sessions: state                        *)

SharedIdle ==
    /\ session_dfs = <<>>
    /\ session_origs = <<>>
    /\ loc_saves = <<>>

----------------------------------------------------------------------------
(* pages/02_Trips.py, the cached load across reruns: state                 *)

\* no entry in the cache of _load_all_imports
NoCached == [at |-> -1, result |-> <<>>]

\* the Trips page has not run
NoRerun ==
    [ran |-> FALSE, refresh |-> FALSE, served |-> FALSE, queried |-> FALSE,
     raised |-> FALSE, result |-> <<>>, at |-> 0, prev |-> NoCached, after_failure |-> FALSE]

TripsIdle ==
    /\ trips_cache = NoCached
    /\ trips_clock = 0
    /\ trips_db = [creds |-> TRUE, up |-> TRUE, tms_exposed |-> TRUE, rows |-> 0]
    /\ trips_rerun = NoRerun

----------------------------------------------------------------------------
(* SpecCalc: the calculations applied to every table within the bounds.    *)
(* Each behaviour draws the arguments and applies one function to them.    *)

MaxTrips == 2

MaxEnergy == 1

SeqsUpTo(S, n) == UNION {[1..k -> S] : k \in 0..n}

TripRow(date, customer, plate, d, t) ==
    [date |-> date, customer |-> customer, plate_number |-> plate,
     distance_km |-> d, tons_loaded |-> t]

\* <<distance_km, tons_loaded>> of a trip: no distance, no cargo, both
DistanceTons == {<<0, 3>>, <<2, 0>>, <<2, 3>>}

\* trips of two trucks for one customer
TruckTrips ==
    {TripRow("2024-01-05", "X", p, dt[1], dt[2]) : p \in {"A", "B"}, dt \in DistanceTons}

\* trips of one truck for two customers
CustomerTrips ==
    {TripRow("2024-01-05", c, "A", dt[1], dt[2]) : c \in Customers, dt \in DistanceTons}

\* trips whose departure date may be missing (an empty date cell imports as NaT)
DatedTrips ==
    {TripRow(d, "X", p, 2, 3) : d \in {"2024-01-05", "NaT"}, p \in {"A", "B"}}

\* trips with a negative distance, which an import does not reject
NegativeTrips == {TripRow("2024-01-05", "X", "A", d, 3) : d \in {-1, 2}}

TripTables ==
    SeqsUpTo(TruckTrips, MaxTrips) \cup SeqsUpTo(CustomerTrips, MaxTrips)
        \cup SeqsUpTo(DatedTrips, MaxTrips) \cup SeqsUpTo(NegativeTrips, MaxTrips)

EnergyRows == [plate_number : {"A", "C"}, period : {"2024-01"}, kwh_per_km : {Q(0), Q(1)}]

EmissionFactors == {<<1, 2>>, <<6, 5>>}

CalcInputs ==
    [trips  : TripTables,
     energy : SeqsUpTo(EnergyRows, MaxEnergy),
     ef     : EmissionFactors]

NoResult == [op |-> "none"]

\* no calculation under test
CalcIdle ==
    /\ calc_in = [trips |-> <<>>, energy |-> <<>>, ef |-> <<1, 2>>]
    /\ calc_out = NoResult

InitCalc ==
    /\ calc_in \in CalcInputs
    /\ calc_out = NoResult
    /\ DbIdle
    /\ SessIdle
    /\ RoutesIdle
    /\ LoadIdle
    /\ LocIdle
    /\ AppIdle
    /\ SharedIdle
    /\ TripsIdle

TruckMetrics ==
    /\ calc_out = NoResult
    /\ calc_out' = [op |-> "truck_metrics",
                    value |-> calculate_truck_metrics(calc_in.trips, calc_in.energy, calc_in.ef)]
    /\ UNCHANGED <<calc_in, nonCalcVars>>

FleetKpis ==
    /\ calc_out = NoResult
    /\ calc_out' = [op |-> "fleet_kpis",
                    value |-> calculate_fleet_kpis(calc_in.trips, calc_in.energy, calc_in.ef)]
    /\ UNCHANGED <<calc_in, nonCalcVars>>

CustomerEmissions(c) ==
    /\ calc_out = NoResult
    /\ calc_out' = [op |-> "customer_emissions", customer |-> c,
                    value |-> calculate_customer_emissions(calc_in.trips, calc_in.energy,
                                                           c, calc_in.ef)]
    /\ UNCHANGED <<calc_in, nonCalcVars>>

Benchmark ==
    /\ calc_out = NoResult
    /\ calc_out' = [op |-> "benchmark",
                    value |-> benchmark_truck_performance(
                        calculate_truck_metrics(calc_in.trips, calc_in.energy, calc_in.ef))]
    /\ UNCHANGED <<calc_in, nonCalcVars>>

NextCalc ==
    \/ TruckMetrics
    \/ FleetKpis
    \/ \E c \in Customers : CustomerEmissions(c)
    \/ Benchmark

SpecCalc == InitCalc /\ [][NextCalc]_vars

----------------------------------------------------------------------------
(* Claims about the calculations (SpecCalc).                               *)

NonNegativeTrips ==
    \A i \in 1..Len(calc_in.trips) :
        calc_in.trips[i].distance_km >= 0 /\ calc_in.trips[i].tons_loaded >= 0

\* the ratio a claim expects: 0 on a zero denominator, the quotient otherwise
Ratio(n, d) == IF d = Zero THEN Zero ELSE QDiv(n, d)

InTrips == calc_in.trips

InTruckMetrics == calculate_truck_metrics(calc_in.trips, calc_in.energy, calc_in.ef)

\* numerators and denominators of the fleet ratios, from the input tables
FleetCargo == QSum(tons_loaded(InTrips))

FleetDistance == QSum(distance_km(InTrips))

FleetTkm == QSum(tkm(InTrips))

FleetEnergy ==
    IF calc_in.energy = <<>> THEN Zero ELSE QSum(Column(InTruckMetrics, "total_kwh"))

FleetEmissions ==
    IF calc_in.energy = <<>> THEN Zero ELSE QSum(Column(InTruckMetrics, "kg_co2"))

TruckRatiosExact ==
    calc_out.op = "truck_metrics" =>
        \A i \in 1..Len(calc_out.value) :
            LET r == calc_out.value[i]
            IN  /\ r.kwh_per_tkm = Ratio(r.total_kwh, r.total_tkm)
                /\ r.kg_co2_per_tkm = Ratio(r.kg_co2, r.total_tkm)
                /\ r.kg_co2_per_km = Ratio(r.kg_co2, r.total_km)

\* a ratio as the dictionaries report it: rounded to k decimals, or not
Reported(x, k, rounded) == IF rounded THEN Round(x, k) ELSE x

\* the fleet and customer ratios against the expected ratio
FleetRatios(rounded) ==
    (calc_out.op = "fleet_kpis" /\ calc_out.value # <<>>) =>
        LET v == calc_out.value
        IN  /\ v.avg_load_per_trip = Reported(Ratio(FleetCargo, Q(Len(InTrips))), 2, rounded)
            /\ v.avg_distance_per_trip = Reported(Ratio(FleetDistance, Q(Len(InTrips))), 2, rounded)
            /\ v.utilization_tkm_per_truck =
                   Reported(Ratio(FleetTkm, Q(Len(SortedPlates(InTrips)))), 2, rounded)
            /\ v.energy_per_tkm = Reported(Ratio(FleetEnergy, FleetTkm), 3, rounded)
            /\ v.emissions_per_tkm = Reported(Ratio(FleetEmissions, FleetTkm), 3, rounded)
            /\ v.emissions_per_ton = Reported(Ratio(FleetEmissions, FleetCargo), 3, rounded)

CustomerRatios(rounded) ==
    (calc_out.op = "customer_emissions" /\ calc_out.value # <<>>) =>
        LET v  == calc_out.value
            ct == customer_trips_of(InTrips, calc_out.customer)
            e  == customer_total_emissions(ct, calc_in.energy, calc_in.ef)
        IN  /\ v.emissions_per_ton = Reported(Ratio(e, QSum(tons_loaded(ct))), 2, rounded)
            /\ v.emissions_per_km = Reported(Ratio(e, QSum(distance_km(ct))), 2, rounded)

\* C1 as stated: for non-negative distances and cargo masses every reported ratio
\* is 0 when its denominator is 0 and is exactly numerator / denominator otherwise.
C1_RatiosExact ==
    NonNegativeTrips =>
        TruckRatiosExact /\ FleetRatios(FALSE) /\ CustomerRatios(FALSE)

\* C1 amended: for non-negative distances and cargo masses every reported ratio is 0
\* when its denominator is 0 and otherwise numerator / denominator, which the fleet
\* KPIs and the customer summary report rounded to 2 or 3 decimals (the per-truck
\* metrics report it unrounded).
C1_RatiosGuardedAndRounded ==
    NonNegativeTrips =>
        TruckRatiosExact /\ FleetRatios(TRUE) /\ CustomerRatios(TRUE)

\* C1 witness: fleet KPIs of trips that carried no cargo but used energy: the
\* denominator of emissions_per_ton is 0 and the ratio is reported as 0.
C1_Witness ==
    /\ calc_out.op = "fleet_kpis"
    /\ calc_out.value # <<>>
    /\ NonNegativeTrips
    /\ FleetCargo = Zero
    /\ QGt(FleetEmissions, Zero)
    /\ calc_out.value.emissions_per_ton = Zero
    /\ QGt(calc_out.value.avg_distance_per_trip, Zero)

\* C2 as stated: when the fleet mean of kwh_per_km, kg_co2_per_km or kg_co2_per_tkm
\* is 0, the matching *_vs_fleet value of every truck is a defined (finite) number.
C2_VsFleetDefined ==
    (calc_out.op = "benchmark" /\ calc_out.value # <<>>) =>
        \A i \in 1..Len(calc_out.value) :
            LET r == calc_out.value[i]
                m == InTruckMetrics
            IN  /\ QMean(Column(m, "kwh_per_km")) = Zero => IsFinite(r.efficiency_vs_fleet)
                /\ QMean(Column(m, "kg_co2_per_km")) = Zero
                       => IsFinite(r.emissions_per_km_vs_fleet)
                /\ QMean(Column(m, "kg_co2_per_tkm")) = Zero
                       => IsFinite(r.emissions_per_tkm_vs_fleet)

\* C6: with energy data every row has total_kwh = total_km * kwh_per_km and
\* kg_co2 = total_kwh * emission_factor; without energy data kwh_per_km, total_kwh,
\* kg_co2 and the three ratios are 0 in every row.
C6_EnergyAndEmissions ==
    calc_out.op = "truck_metrics" =>
        \A i \in 1..Len(calc_out.value) :
            LET r == calc_out.value[i]
            IN  IF calc_in.energy # <<>>
                THEN /\ r.total_kwh = QMul(r.total_km, r.kwh_per_km)
                     /\ r.kg_co2 = QMul(r.total_kwh, calc_in.ef)
                ELSE /\ r.kwh_per_km = Zero /\ r.total_kwh = Zero /\ r.kg_co2 = Zero
                     /\ r.kwh_per_tkm = Zero /\ r.kg_co2_per_tkm = Zero
                     /\ r.kg_co2_per_km = Zero

\* C6 witness: a truck that drove and used energy, under a factor other than 0.5
C6_Witness ==
    /\ calc_out.op = "truck_metrics"
    /\ calc_in.energy # <<>>
    /\ calc_in.ef = <<6, 5>>
    /\ \E i \in 1..Len(calc_out.value) :
           /\ QGt(calc_out.value[i].total_kwh, Zero)
           /\ calc_out.value[i].kg_co2 = QMul(calc_out.value[i].total_kwh, <<6, 5>>)

\* C7 as stated: one row per distinct plate_number; each row's total_tkm is the sum
\* of distance_km * tons_loaded over the truck's trips and its total_trips is the
\* number of those trips; the rows' total_tkm add up to the fleet's total_tkm.
C7_RowsPerTruck ==
    calc_out.op = "truck_metrics" =>
        LET v == calc_out.value
        IN  /\ Len(v) = Cardinality({InTrips[i].plate_number : i \in 1..Len(InTrips)})
            /\ \A i, j \in 1..Len(v) : v[i].plate = v[j].plate => i = j
            /\ \A i \in 1..Len(v) :
                   /\ v[i].total_tkm = QSum(tkm(RowsOf(InTrips, v[i].plate)))
                   /\ v[i].total_trips = Len(RowsOf(InTrips, v[i].plate))
            /\ QSum(Column(v, "total_tkm")) = fleet_total_tkm(InTrips)

----------------------------------------------------------------------------
(* utils/db.py: operations (SpecDb)                                        *)

InitDb ==
    /\ db_table \in [Ids -> {0} \cup Versions]
    /\ db_up \in BOOLEAN
    /\ creds \in BOOLEAN
    /\ client_cached = FALSE
    /\ fetch_cache = [k \in CacheKeys |-> NoEntry]
    /\ now = 0
    /\ filled = [k \in CacheKeys |-> NoFill]
    /\ last_call = NoCall
    /\ CalcIdle
    /\ SessIdle
    /\ RoutesIdle
    /\ LoadIdle
    /\ LocIdle
    /\ AppIdle
    /\ SharedIdle
    /\ TripsIdle

TableRows == {[id |-> i, v |-> db_table[i]] : i \in {j \in Ids : db_table[j] # 0}}

\* what q.execute() may return for the arguments k: every row, or with limit=1 and
\* no order_by any one row
SelectResults(k) ==
    IF k.limit = 0 \/ TableRows = {} THEN {TableRows} ELSE {{r} : r \in TableRows}

\* get_supabase(): the cached client, or a new one when the credentials are set
ClientAvailable == client_cached \/ creds

\* st.cache_data(ttl=60): an entry younger than the TTL is served, an older one is
\* not; at exactly the TTL either may happen
CacheServes(k) == fetch_cache[k].at >= 0 /\ now - fetch_cache[k].at <= TTL

CacheMisses(k) == fetch_cache[k].at < 0 \/ now - fetch_cache[k].at >= TTL

Call(op, k, queried, raised, rows) ==
    [op |-> op, key |-> k, at |-> now, queried |-> queried, raised |-> raised,
     rows |-> rows, prev |-> filled[k], up |-> db_up]

\* one call of the decorated fetch_table with arguments k, made by `op`
CachedFetch(op, k) ==
    \/ /\ CacheServes(k)
       /\ last_call' = Call(op, k, FALSE, FALSE, fetch_cache[k].rows)
       /\ UNCHANGED <<db_table, db_up, creds, client_cached, fetch_cache, now, filled>>
    \/ /\ CacheMisses(k)
       /\ ~ClientAvailable
       /\ last_call' = Call(op, k, FALSE, TRUE, {})
       /\ UNCHANGED <<db_table, db_up, creds, client_cached, fetch_cache, now, filled>>
    \/ /\ CacheMisses(k)
       /\ ClientAvailable
       /\ ~db_up
       /\ client_cached' = TRUE
       /\ last_call' = Call(op, k, TRUE, TRUE, {})
       /\ UNCHANGED <<db_table, db_up, creds, fetch_cache, now, filled>>
    \/ /\ CacheMisses(k)
       /\ ClientAvailable
       /\ db_up
       /\ client_cached' = TRUE
       /\ \E rows \in SelectResults(k) :
              /\ fetch_cache' = [fetch_cache EXCEPT ![k] = [at |-> now, rows |-> rows]]
              /\ filled' = [filled EXCEPT ![k] = [at |-> now, rows |-> rows,
                                                   cleared |-> FALSE]]
              /\ last_call' = Call(op, k, TRUE, FALSE, rows)
       /\ UNCHANGED <<db_table, db_up, creds, now>>

fetch_table(k) == CachedFetch("fetch_table", k) /\ UNCHANGED nonDbVars

HealthKey == [table |-> "ev.trucks", limit |-> 1, order_by |-> "None"]

\* returns True unless fetch_table raised; last_call.raised is the negated result
connection_healthcheck == CachedFetch("connection_healthcheck", HealthKey) /\ UNCHANGED nonDbVars

\* mutant: a write that also drops the cached reads
WriteInvalidating(table) ==
    /\ ClientAvailable
    /\ db_up
    /\ client_cached' = TRUE
    /\ db_table' = table
    /\ fetch_cache' = [k \in CacheKeys |-> NoEntry]
    /\ UNCHANGED <<db_up, creds, now, filled, last_call, nonDbVars>>

\* a write: reaches the database through the client, and touches no cache
Write(table) ==
    /\ ClientAvailable
    /\ db_up
    /\ client_cached' = TRUE
    /\ db_table' = table
    /\ UNCHANGED <<db_up, creds, fetch_cache, now, filled, last_call, nonDbVars>>

insert_rows(i) ==
    /\ db_table[i] = 0
    /\ Write([db_table EXCEPT ![i] = 1])

upsert_rows(i, v) ==
    /\ db_table[i] # v
    /\ Write([db_table EXCEPT ![i] = v])

delete_rows_by_ids(i) ==
    /\ db_table[i] # 0
    /\ Write([db_table EXCEPT ![i] = 0])

\* st.cache_data.clear()
clear_cache ==
    /\ fetch_cache' = [k \in CacheKeys |-> NoEntry]
    /\ filled' = [k \in CacheKeys |->
                     IF filled[k].at >= 0 THEN [filled[k] EXCEPT !.cleared = TRUE]
                     ELSE filled[k]]
    /\ UNCHANGED <<db_table, db_up, creds, client_cached, now, last_call, nonDbVars>>

Tick ==
    /\ now + TickSeconds <= MaxTime
    /\ now' = now + TickSeconds
    /\ UNCHANGED <<db_table, db_up, creds, client_cached, fetch_cache, filled, last_call,
                   nonDbVars>>

\* the database becomes unreachable or reachable again
DbOutage ==
    /\ db_up' = ~db_up
    /\ UNCHANGED <<db_table, creds, client_cached, fetch_cache, now, filled, last_call,
                   nonDbVars>>

NextDb ==
    \/ \E k \in CacheKeys : fetch_table(k)
    \/ connection_healthcheck
    \/ \E i \in Ids : insert_rows(i)
    \/ \E i \in Ids, v \in Versions : upsert_rows(i, v)
    \/ \E i \in Ids : delete_rows_by_ids(i)
    \/ clear_cache
    \/ Tick
    \/ DbOutage

SpecDb == InitDb /\ [][NextDb]_vars

----------------------------------------------------------------------------
(* Claims about utils/db.py (SpecDb).                                      *)

\* C3: a fetch_table call made less than TTL seconds after the call that queried and
\* stored the rows for the same arguments (no cache clear in between) issues no query
\* and returns those rows, whatever was written to the table meanwhile; a call made
\* after the TTL has passed, or after a cache clear, queries the database again.
C3_FixedTtlMemo ==
    last_call.op = "fetch_table" =>
        LET p   == last_call.prev
            age == last_call.at - p.at
        IN  /\ (p.at >= 0 /\ ~p.cleared /\ age < TTL)
                   => (~last_call.queried /\ ~last_call.raised /\ last_call.rows = p.rows)
            /\ (p.at >= 0 /\ (p.cleared \/ age > TTL)) => last_call.queried

\* C3 witness: a call served from the cache although the table no longer holds the
\* rows it returned
C3_Witness ==
    /\ last_call.op = "fetch_table"
    /\ last_call.prev.at >= 0
    /\ last_call.at = now
    /\ last_call.at - last_call.prev.at < TTL
    /\ ~last_call.queried
    /\ last_call.rows = last_call.prev.rows
    /\ last_call.rows \notin SelectResults(last_call.key)

\* C10 as stated: connection_healthcheck returns True only if a select succeeded
\* against the database during the call, and False whenever the database is
\* unreachable or the credentials are missing at the time of the call.
C10_HealthcheckIsLive ==
    last_call.op = "connection_healthcheck" =>
        /\ ~last_call.raised => (last_call.queried /\ last_call.up)
        /\ (~last_call.up \/ ~creds) => last_call.raised

----------------------------------------------------------------------------
(* SpecSession: one browser session importing and clearing data and        *)
(* visiting the Trucks page.  The session shows one page at a time: an     *)
(* action on the Data Import page replaces the rendering of the Trucks page.*)

MaxSessionTrips == 2

MaxSessionEnergy == 3

\* app.py default_trucks, its first two trucks ('45211' 1.2 and '73619' 1.1 kWh/km)
default_trucks ==
    << [plate_number |-> "A", period |-> "2024-01", kwh_per_km |-> <<6, 5>>],
       [plate_number |-> "B", period |-> "2024-01", kwh_per_km |-> <<11, 10>>] >>

\* the rows of an uploaded energy file
SessionEnergyRows == {[plate_number |-> "C", period |-> "2024-02", kwh_per_km |-> Q(1)]}

\* the rows of an uploaded trip file that pass the cleaning of the import
SessionTripRows == {TripRow("2024-01-05", "X", p, 2, 3) : p \in {"A", "B"}}

\* data/sample_trips.csv, when the file exists
sample_trips == {<<>>, <<TripRow("2024-01-05", "X", "A", 2, 3)>>}

\* the session after the first run of app.py
InitSession ==
    /\ \E t \in sample_trips :
           session_state = [EmptySession EXCEPT !.energy_consumption = default_trucks,
                                                !.trips_data = t]
    /\ trucks_page = NotRendered
    /\ CalcIdle
    /\ DbIdle
    /\ RoutesIdle
    /\ LoadIdle
    /\ LocIdle
    /\ AppIdle
    /\ SharedIdle
    /\ TripsIdle

\* 06_Data_Import.py "Import Trip Data": the cleaned rows are appended
ImportTripData(row) ==
    /\ Len(session_state.trips_data) < MaxSessionTrips
    /\ session_state' = [session_state EXCEPT !.trips_data = Append(@, row)]
    /\ trucks_page' = NotRendered
    /\ UNCHANGED nonSessVars

\* 06_Data_Import.py "Import Energy Data"
ImportEnergyData(row) ==
    /\ Len(session_state.energy_consumption) < MaxSessionEnergy
    /\ session_state' = [session_state EXCEPT !.energy_consumption = Append(@, row)]
    /\ trucks_page' = NotRendered
    /\ UNCHANGED nonSessVars

\* 06_Data_Import.py "Clear Trip Data": only trips_data is replaced
ClearTripData ==
    /\ session_state' = [session_state EXCEPT !.trips_data = <<>>]
    /\ trucks_page' = NotRendered
    /\ UNCHANGED nonSessVars

\* 06_Data_Import.py "Clear Energy Data"
ClearEnergyData ==
    /\ session_state' = [session_state EXCEPT !.energy_consumption = <<>>]
    /\ trucks_page' = NotRendered
    /\ UNCHANGED nonSessVars

\* 06_Data_Import.py emission factor input
SetEmissionFactor(f) ==
    /\ f # session_state.emission_factor
    /\ session_state' = [session_state EXCEPT !.emission_factor = f]
    /\ trucks_page' = NotRendered
    /\ UNCHANGED nonSessVars

\* 03_Trucks.py: one run of the page script
VisitTrucksPage ==
    LET truck_metrics == calculate_truck_metrics(session_state.trips_data,
                                                 session_state.energy_consumption,
                                                 session_state.emission_factor)
        after == IF session_state.trips_data # <<>>
                 THEN [session_state EXCEPT !.trucks_data = truck_metrics]
                 ELSE session_state
    IN  /\ session_state' = after
        /\ trucks_page' = [rendered |-> TRUE,
                           offered  |-> after.trucks_data # <<>>,
                           download |-> IF after.trucks_data # <<>>
                                        THEN after.trucks_data ELSE <<>>]
        /\ UNCHANGED nonSessVars

NextSession ==
    \/ \E row \in SessionTripRows : ImportTripData(row)
    \/ \E row \in SessionEnergyRows : ImportEnergyData(row)
    \/ ClearTripData
    \/ ClearEnergyData
    \/ \E f \in EmissionFactors : SetEmissionFactor(f)
    \/ VisitTrucksPage

SpecSession == InitSession /\ [][NextSession]_vars

----------------------------------------------------------------------------
(* Claims about the session's derived tables (SpecSession).                *)

\* C4 as stated: the fleet performance table that the Trucks page offers for download
\* equals calculate_truck_metrics applied to the session's trips_data,
\* energy_consumption and emission_factor as they are when the page is rendered.
C4_DownloadIsRecomputed ==
    (trucks_page.rendered /\ trucks_page.offered) =>
        trucks_page.download = calculate_truck_metrics(session_state.trips_data,
                                                       session_state.energy_consumption,
                                                       session_state.emission_factor)

----------------------------------------------------------------------------
(* utils/google_maps.py.  A string is a sequence of one-character strings;  *)
(* None and "" are both <<>>: the page only tests coordinates for truth.    *)

Digits == <<"0", "1", "2", "3", "4", "5", "6", "7", "8", "9">>

IsDigit(c) == \E i \in 1..10 : Digits[i] = c

DigitValue(c) == (CHOOSE i \in 1..10 : Digits[i] = c) - 1

RECURSIVE DigitsValue(_)
DigitsValue(ds) ==
    IF ds = <<>> THEN 0
    ELSE 10 * DigitsValue(SubSeq(ds, 1, Len(ds) - 1)) + DigitValue(ds[Len(ds)])

\* str.split(','): the pieces between the commas
RECURSIVE split(_, _)
split(str, sep) ==
    IF \A i \in 1..Len(str) : str[i] # sep THEN <<str>>
    ELSE LET i == CHOOSE j \in 1..Len(str) :
                      str[j] = sep /\ \A k \in 1..(j - 1) : str[k] # sep
         IN  <<SubSeq(str, 1, i - 1)>> \o split(SubSeq(str, i + 1, Len(str)), sep)

AllDigits(ds) == ds # <<>> /\ \A i \in 1..Len(ds) : IsDigit(ds[i])

\* float(text) of a decimal literal [-]digits[.digits]; any other text of the model
\* raises ValueError
float(text) ==
    LET neg  == text # <<>> /\ text[1] = "-"
        body == IF neg THEN Tail(text) ELSE text
        p    == split(body, ".")
        frac == IF Len(p) = 2 THEN p[2] ELSE <<>>
        ok   == Len(p) <= 2 /\ AllDigits(p[1]) /\ (Len(p) = 2 => AllDigits(p[2]))
        mag  == Norm(DigitsValue(p[1]) * Pow10(Len(frac)) + DigitsValue(frac),
                     Pow10(Len(frac)))
    IN  IF ok THEN [ok |-> TRUE, v |-> IF neg THEN QNeg(mag) ELSE mag]
        ELSE [ok |-> FALSE, v |-> Zero]

\* a distance in km, or None
None == [ok |-> FALSE, km |-> Zero]

Km(q) == [ok |-> TRUE, km |-> q]

\* an Optional[float] tested for truth: None and 0.0 are false
Truthy(distance) == distance.ok /\ distance.km # Zero

\* pi, as the fraction 355/113
Pi == <<355, 113>>

\* the haversine formula for two points on the equator, where it reduces to
\* r * |dlng| in radians, with r = 6371 km, rounded to 2 decimals
calculate_haversine_distance(lat1, lng1, lat2, lng2) ==
    LET dlng == IF QLt(lng2, lng1) THEN QSub(lng1, lng2) ELSE QSub(lng2, lng1)
    IN  CASE lat1 = Zero /\ lat2 = Zero /\ ~QGt(dlng, Q(180)) ->
            Round(QMul(QMul(Q(6371), dlng), QDiv(Pi, Q(180))), 2)

calculate_distance_fallback(from_coords, to_coords) ==
    LET f == split(from_coords, ",")
        t == split(to_coords, ",")
    IN  IF /\ Len(f) = 2 /\ Len(t) = 2
           /\ float(f[1]).ok /\ float(f[2]).ok /\ float(t[1]).ok /\ float(t[2]).ok
        THEN Km(calculate_haversine_distance(float(f[1]).v, float(f[2]).v,
                                             float(t[1]).v, float(t[2]).v))
        ELSE None

\* the driving distances the Distance Matrix API may report, already rounded
DrivingDistances == {Zero, Q(150)}

\* calculate_distance_google_maps: None without an API key, on a network error and
\* on a status other than OK; otherwise the reported distance
GoogleResults == {None} \cup (IF google_api_key THEN {Km(d) : d \in DrivingDistances} ELSE {})

----------------------------------------------------------------------------
(* SpecRoutes: pages/05_Routes.py on one session.                          *)

MaxRoutes == 2

Location(name, coords) == [location_name |-> name, coordinates |-> coords]

\* the session's locations: none, or two places one degree apart on the equator and
\* one place without coordinates
LocationTables ==
    { <<>>,
      << Location("L1", <<"0", ",", "0">>),
         Location("L2", <<"0", ",", "1">>),
         Location("L3", <<>>) >> }

RouteTrip(from, to) ==
    [date |-> "2024-01-05", customer |-> "X", plate_number |-> "A", distance_km |-> 2,
     tons_loaded |-> 3, from_location |-> from, to_location |-> to]

RouteTripTables ==
    { <<>>,
      <<RouteTrip("L1", "L2")>>,
      <<RouteTrip("L1", "L2"), RouteTrip("L3", "L2"), RouteTrip("L1", "L2")>> }

InitRoutes ==
    /\ \E locs \in LocationTables, trips \in RouteTripTables :
           session_state = [EmptySession EXCEPT !.energy_consumption = default_trucks,
                                                !.locations_data = locs,
                                                !.trips_data = trips]
    /\ trucks_page = NotRendered
    /\ google_api_key \in BOOLEAN
    /\ distance_lookups = <<>>
    /\ routes_edit = NoEdit
    /\ route_writes = <<>>
    /\ CalcIdle
    /\ DbIdle
    /\ LoadIdle
    /\ LocIdle
    /\ AppIdle
    /\ SharedIdle
    /\ TripsIdle

\* the loop over locations_data: the last row named `from`; for `to` the last row
\* named `to` that is not named `from` (the elif)
from_coords_of(locs, from) ==
    LET idx == {i \in 1..Len(locs) : locs[i].location_name = from}
    IN  IF idx = {} THEN <<>>
        ELSE locs[CHOOSE i \in idx : \A j \in idx : j <= i].coordinates

to_coords_of(locs, from, to) ==
    LET idx == {i \in 1..Len(locs) : locs[i].location_name = to /\ to # from}
    IN  IF idx = {} THEN <<>>
        ELSE locs[CHOOSE i \in idx : \A j \in idx : j <= i].coordinates

\* whether the page calls calculate_distance_google_maps for the pair
LooksUp(locs, from, to) ==
    /\ locs # <<>>
    /\ from_coords_of(locs, from) # <<>>
    /\ to_coords_of(locs, from, to) # <<>>

Lookup(op, locs, from, to, google, stored) ==
    [op |-> op, from_coords |-> from_coords_of(locs, from),
     to_coords |-> to_coords_of(locs, from, to), google |-> google, stored |-> stored]

Route(from, to, km, source) ==
    [from_location_name |-> from, to_location_name |-> to, km_distance |-> km,
     source |-> source]

\* a route as stored by an action of the page, with the API call made for it
RouteWrite(op, route, called, google) ==
    [op |-> op, km_distance |-> route.km_distance, source |-> route.source,
     called |-> called, google |-> google]

\* "Add Route"
AddRoute(from_location, to_location, km_distance, source, calculate_google, google) ==
    LET locs    == session_state.locations_data
        looksup == calculate_google /\ LooksUp(locs, from_location, to_location)
        took    == looksup /\ Truthy(google)
        calculated_distance == IF took THEN google.km ELSE km_distance
        route_source        == IF took THEN "Google Maps" ELSE source
    IN  /\ from_location # "" /\ to_location # ""
        /\ Len(session_state.routes_data) < MaxRoutes
        /\ ~looksup => google = None
        /\ session_state' =
               [session_state EXCEPT !.routes_data =
                    Append(@, Route(from_location, to_location, calculated_distance,
                                    route_source))]
        /\ distance_lookups' =
               IF looksup
               THEN <<Lookup("Add Route", locs, from_location, to_location, google,
                             calculated_distance)>>
               ELSE <<>>
        /\ route_writes' =
               <<RouteWrite("Add Route",
                            Route(from_location, to_location, calculated_distance,
                                  route_source), looksup, google)>>
        /\ routes_edit' = NoEdit
        /\ UNCHANGED <<google_api_key, nonRouteVars>>

\* routes_data rows whose km_distance is NaN or 0
missing_distances(routes) ==
    {i \in 1..Len(routes) : IsNaN(routes[i].km_distance) \/ routes[i].km_distance = Zero}

\* the lookups of a loop, in the order of the loop: entries whose pair was looked up
LookupsOf(entries) == SelectSeq(entries, LAMBDA l : l.from_coords # <<>> /\ l.to_coords # <<>>)

\* "Calculate All Missing Distances": google[i] is what the API call for row i returns
CalculateAllMissingDistances(google) ==
    LET locs   == session_state.locations_data
        routes == session_state.routes_data
        looksup(i) == i \in missing_distances(routes)
                          /\ LooksUp(locs, routes[i].from_location_name,
                                     routes[i].to_location_name)
        after == [i \in 1..Len(routes) |->
                     IF looksup(i) /\ Truthy(google[i])
                     THEN [routes[i] EXCEPT !.km_distance = google[i].km,
                                            !.source = "Google Maps"]
                     ELSE routes[i]]
    IN  /\ locs # <<>>
        /\ missing_distances(routes) # {}
        /\ \A i \in 1..Len(routes) : ~looksup(i) => google[i] = None
        /\ session_state' = [session_state EXCEPT !.routes_data = after]
        /\ distance_lookups' =
               LookupsOf([i \in 1..Len(routes) |->
                   IF looksup(i)
                   THEN Lookup("Calculate All Missing Distances", locs,
                               routes[i].from_location_name, routes[i].to_location_name,
                               google[i], after[i].km_distance)
                   ELSE Lookup("none", <<>>, "", "", None, Zero)])
        /\ route_writes' =
               LET updated == SelectSeq([i \in 1..Len(routes) |-> i],
                                        LAMBDA i : looksup(i) /\ Truthy(google[i]))
               IN  [k \in 1..Len(updated) |->
                       RouteWrite("Calculate All Missing Distances", after[updated[k]],
                                  TRUE, google[updated[k]])]
        /\ routes_edit' = NoEdit
        /\ UNCHANGED <<google_api_key, nonRouteVars>>

\* DataFrame.drop_duplicates: the first occurrence of each row, in order
RECURSIVE drop_duplicates(_)
drop_duplicates(rows) ==
    IF rows = <<>> THEN <<>>
    ELSE LET init == drop_duplicates(SubSeq(rows, 1, Len(rows) - 1))
             last == rows[Len(rows)]
         IN  IF \E i \in 1..Len(init) : init[i] = last THEN init ELSE Append(init, last)

\* the (from, to) pairs of the trips that no route has yet
new_routes_of(trips, routes) ==
    LET trip_routes == drop_duplicates([i \in 1..Len(trips) |->
                           <<trips[i].from_location, trips[i].to_location>>])
        existing_routes == {<<routes[i].from_location_name, routes[i].to_location_name>> :
                               i \in 1..Len(routes)}
    IN  SelectSeq(trip_routes, LAMBDA r : r \notin existing_routes)

\* "Generate Routes": google[i] is what the API call for the i-th new route returns
GenerateRoutes(google) ==
    LET locs       == session_state.locations_data
        new_routes == new_routes_of(session_state.trips_data, session_state.routes_data)
        looksup(i) == LooksUp(locs, new_routes[i][1], new_routes[i][2])
        took(i)    == looksup(i) /\ Truthy(google[i])
        added == [i \in 1..Len(new_routes) |->
                     Route(new_routes[i][1], new_routes[i][2],
                           IF took(i) THEN google[i].km ELSE Zero,
                           IF took(i) THEN "Google Maps" ELSE "Manual")]
    IN  /\ session_state.trips_data # <<>>
        /\ new_routes # <<>>
        /\ Len(session_state.routes_data) + Len(new_routes) <= MaxRoutes
        /\ \A i \in 1..Len(new_routes) : ~looksup(i) => google[i] = None
        /\ session_state' = [session_state EXCEPT !.routes_data = @ \o added]
        /\ distance_lookups' =
               LookupsOf([i \in 1..Len(new_routes) |->
                   IF looksup(i)
                   THEN Lookup("Generate Routes", locs, new_routes[i][1], new_routes[i][2],
                               google[i], added[i].km_distance)
                   ELSE Lookup("none", <<>>, "", "", None, Zero)])
        /\ route_writes' =
               [i \in 1..Len(new_routes) |->
                   RouteWrite("Generate Routes", added[i], looksup(i), google[i])]
        /\ routes_edit' = NoEdit
        /\ UNCHANGED <<google_api_key, nonRouteVars>>

RouteSources == {"Manual", "Google Maps", "Other"}

\* the characters of the location names of the model
NameChars(name) ==
    CASE name = "L1" -> <<"L", "1">>
      [] name = "L2" -> <<"L", "2">>
      [] name = "L3" -> <<"L", "3">>
      [] OTHER -> <<>>

lower(c) == IF c = "L" THEN "l" ELSE c

\* Series.str.contains(pat, case=False) for a pattern of letters and digits
contains(text, pat) ==
    \E i \in 0..(Len(text) - Len(pat)) :
        \A j \in 1..Len(pat) : lower(text[i + j]) = lower(pat[j])

\* the mask of the search box
MatchesSearch(route, search_route) ==
    \/ contains(NameChars(route.from_location_name), search_route)
    \/ contains(NameChars(route.to_location_name), search_route)

\* the frame handed to st.data_editor
display_routes_of(routes, search_route) ==
    IF search_route # <<>>
    THEN SelectSeq(routes, LAMBDA r : MatchesSearch(r, search_route))
    ELSE routes

\* what the user can make of the displayed frame: a new distance in one row, or one
\* row deleted
RouteEdits(display) ==
    {[display EXCEPT ![i].km_distance = Q(7)] : i \in 1..Len(display)}
        \cup {SubSeq(display, 1, i - 1) \o SubSeq(display, i + 1, Len(display)) :
                  i \in 1..Len(display)}

\* the routes editor: a changed frame replaces routes_data
EditRoutes(search_route, edited_df) ==
    LET display_routes == display_routes_of(session_state.routes_data, search_route)
    IN  /\ session_state.routes_data # <<>>
        /\ edited_df \in RouteEdits(display_routes)
        /\ edited_df # display_routes
        /\ session_state' = [session_state EXCEPT !.routes_data = edited_df]
        /\ routes_edit' = [applied |-> TRUE, search_route |-> search_route,
                           before |-> session_state.routes_data]
        /\ distance_lookups' = <<>>
        /\ route_writes' = <<>>
        /\ UNCHANGED <<google_api_key, nonRouteVars>>

\* the texts typed into the search box
SearchTexts == { <<>>, <<"l", "1">> }

NextRoutes ==
    \/ \E from_location \in {"", "L1", "L3"}, to_location \in {"L1", "L2"},
          km_distance \in {Zero, Q(5)}, source \in RouteSources,
          calculate_google \in BOOLEAN, google \in GoogleResults :
           AddRoute(from_location, to_location, km_distance, source, calculate_google,
                    google)
    \/ \E google \in [1..Len(session_state.routes_data) -> GoogleResults] :
           CalculateAllMissingDistances(google)
    \/ \E google \in [1..Len(new_routes_of(session_state.trips_data,
                                           session_state.routes_data)) -> GoogleResults] :
           GenerateRoutes(google)
    \/ \E search_route \in SearchTexts :
           \E edited_df \in RouteEdits(display_routes_of(session_state.routes_data,
                                                        search_route)) :
               EditRoutes(search_route, edited_df)

SpecRoutes == InitRoutes /\ [][NextRoutes]_vars

----------------------------------------------------------------------------
(* Claims about the Routes page (SpecRoutes).                              *)

\* C5 as stated: whenever calculate_distance_google_maps cannot produce a distance
\* for a route whose two locations have coordinates, the distance stored for the
\* route by Add Route, Calculate All Missing Distances and Generate Routes is the
\* great-circle distance of calculate_distance_fallback.
C5_FallbackDistanceStored ==
    \A i \in 1..Len(distance_lookups) :
        LET l == distance_lookups[i]
        IN  (l.from_coords # <<>> /\ l.to_coords # <<>> /\ ~l.google.ok) =>
                Km(l.stored) = calculate_distance_fallback(l.from_coords, l.to_coords)

\* C21 as stated: a route created or updated by Add Route, Calculate All Missing
\* Distances or Generate Routes has the source 'Google Maps' if and only if its
\* stored km_distance is the value calculate_distance_google_maps returned for it.
C21_GoogleSourceIffGoogleDistance ==
    \A i \in 1..Len(route_writes) :
        LET w == route_writes[i]
        IN  (w.source = "Google Maps")
                <=> (w.called /\ w.google.ok /\ w.km_distance = w.google.km)

----------------------------------------------------------------------------
(* SpecLoad: _load_all_imports(page_size, max_pages) reading a table that   *)
(* does not change during the load.  The arguments and the table size are   *)
(* drawn from small ranges; the defaults of the source are 5000 and 200.    *)

MaxPageSize == 2

MaxPagesArg == 3

MaxTotal == 7

InitLoad ==
    /\ imports_total \in 0..MaxTotal
    /\ \E page_size \in 1..MaxPageSize, max_pages \in 1..MaxPagesArg, env \in BOOLEAN :
           load = [NotLoading EXCEPT !.page_size = page_size, !.max_pages = max_pages,
                                     !.env_creds = env]
    /\ trips_page = "none"
    /\ CalcIdle
    /\ DbIdle
    /\ SessIdle
    /\ RoutesIdle
    /\ LocIdle
    /\ AppIdle
    /\ SharedIdle
    /\ TripsIdle

\* the sources in the order of the attempts
Sources == <<"tms.imports", "public.\"tms.imports\"">>

\* the call starts: without SUPABASE_URL / SUPABASE_ANON_KEY it raises RuntimeError,
\* otherwise attempt 1 begins
StartLoad ==
    /\ load.pc = "idle"
    /\ load' = IF load.env_creds THEN [load EXCEPT !.pc = "count", !.attempt = 1]
               ELSE [load EXCEPT !.pc = "error"]
    /\ UNCHANGED <<imports_total, trips_page, nonLoadVars>>

\* the head request: select("*", count="exact").range(0, 0)
CountRows ==
    /\ load.pc = "count"
    /\ load' = [load EXCEPT !.total = imports_total,
                            !.pc = IF imports_total = 0 THEN "done" ELSE "loop",
                            !.where_used = IF imports_total = 0 THEN Sources[load.attempt]
                                           ELSE @]
    /\ UNCHANGED <<imports_total, trips_page, nonLoadVars>>

loop_continues == load.fetched < load.total /\ load.pages < load.max_pages

\* one turn of the while loop; the server answers the range request with its first
\* n rows, n at most the size of the range
FetchPage(n) ==
    LET start == load.fetched
        end   == IF load.fetched + load.page_size - 1 < load.total - 1
                 THEN load.fetched + load.page_size - 1 ELSE load.total - 1
    IN  /\ load.pc = "loop"
        /\ loop_continues
        /\ n <= end - start + 1
        /\ load' = [load EXCEPT !.frames = Append(@, [start |-> start, n |-> n]),
                                !.fetched = @ + n,
                                !.pages = @ + 1,
                                !.empty_page = (n = 0),
                                !.pc = IF n = 0 THEN "done" ELSE "loop",
                                !.where_used = IF n = 0 THEN Sources[load.attempt] ELSE @]
        /\ UNCHANGED <<imports_total, trips_page, nonLoadVars>>

\* the loop ends and the frames are concatenated
ReturnFrames ==
    /\ load.pc = "loop"
    /\ ~loop_continues
    /\ load' = [load EXCEPT !.pc = "done", !.where_used = Sources[load.attempt]]
    /\ UNCHANGED <<imports_total, trips_page, nonLoadVars>>

\* mutant: a failure of the first source is not retried on the second
RequestRaisesNoRetry ==
    /\ load.pc = "count" \/ (load.pc = "loop" /\ loop_continues)
    /\ load' = [load EXCEPT !.raised = @ \cup {load.attempt}, !.pc = "error"]
    /\ UNCHANGED <<imports_total, trips_page, nonLoadVars>>

\* a request of fetch_all raises: the first attempt is abandoned for the second with
\* fresh locals, the second ends the call with RuntimeError
RequestRaises ==
    /\ load.pc = "count" \/ (load.pc = "loop" /\ loop_continues)
    /\ load' = IF load.attempt = 1
               THEN [load EXCEPT !.raised = @ \cup {1}, !.attempt = 2, !.pc = "count",
                                 !.total = 0, !.fetched = 0, !.pages = 0,
                                 !.frames = <<>>, !.empty_page = FALSE]
               ELSE [load EXCEPT !.raised = @ \cup {2}, !.pc = "error"]
    /\ UNCHANGED <<imports_total, trips_page, nonLoadVars>>

\* "Load data" of the Trips page: an exception of the load is shown as an error and
\* the script stops; otherwise the page goes on to its table and analytics
RenderTripsPage ==
    /\ load.pc \in {"done", "error"}
    /\ trips_page = "none"
    /\ trips_page' = IF load.pc = "error" THEN "error" ELSE "analytics"
    /\ UNCHANGED <<imports_total, load, nonLoadVars>>

NextLoad ==
    \/ StartLoad
    \/ RequestRaises
    \/ RenderTripsPage
    \/ CountRows
    \/ \E n \in 0..MaxPageSize : FetchPage(n)
    \/ ReturnFrames

SpecLoad == InitLoad /\ [][NextLoad]_vars

----------------------------------------------------------------------------
(* Claims about the paged load (SpecLoad).                                 *)

RECURSIVE RowsIn(_)
RowsIn(frames) ==
    IF frames = <<>> THEN 0
    ELSE RowsIn(SubSeq(frames, 1, Len(frames) - 1)) + frames[Len(frames)].n

\* C8 as stated: for a table of `total` rows that is not modified during the load,
\* and a server that returns at least one row per page request, the returned frame
\* has exactly `total` rows, from consecutive ranges that start at row 0.
C8_LoadsAllRows ==
    (load.pc = "done" /\ ~load.empty_page) =>
        /\ RowsIn(load.frames) = imports_total
        /\ \A k \in 1..Len(load.frames) :
               load.frames[k].start = RowsIn(SubSeq(load.frames, 1, k - 1))

\* _load_all_imports returned, or raised, as the order of its attempts prescribes
SourceOrderKept ==
    /\ load.attempt = 2 => 1 \in load.raised
    /\ load.pc = "done" =>
           /\ load.where_used = Sources[load.attempt]
           /\ load.attempt = 1 <=> load.raised = {}
    /\ trips_page = "error" => load.pc = "error"
    /\ trips_page = "analytics" => load.pc = "done"

\* C11 as stated: tms.imports is read first and its result returned tagged
\* 'tms.imports'; public."tms.imports" is read only if the first attempt raised;
\* RuntimeError is raised only if both attempts raised, and then the page shows an
\* error and stops.
C11_ErrorOnlyAfterBothAttempts ==
    /\ SourceOrderKept
    /\ load.pc = "error" => load.raised = {1, 2}

\* C11: the order of the attempts and the tags are as stated; RuntimeError is raised
\* when both attempts raised and also, before any attempt, when SUPABASE_URL or
\* SUPABASE_ANON_KEY is missing; in both cases the page shows an error and stops.
C11_SourceOrder ==
    /\ SourceOrderKept
    /\ load.pc = "error" =>
           \/ load.raised = {1, 2}
           \/ ~load.env_creds /\ load.attempt = 0 /\ load.raised = {}

\* C11 witness: the first attempt raised after it had fetched a page, the second one
\* raised too, and the page shows the error
C11_Witness ==
    /\ load.pc = "error"
    /\ load.raised = {1, 2}
    /\ trips_page = "error"

----------------------------------------------------------------------------
(* pages/04_Locations.py: coordinate validation.  A float cell is written   *)
(* as text by str() and matched against the patterns as text.               *)

RECURSIVE IntDigits(_)
IntDigits(n) ==
    IF n < 10 THEN <<Digits[n + 1]>> ELSE Append(IntDigits(n \div 10), Digits[(n % 10) + 1])

\* the number of decimals of a finite float of the model (at most 2)
Decimals(q) ==
    CHOOSE k \in 0..2 : Pow10(k) % q[2] = 0 /\ \A j \in 0..(k - 1) : Pow10(j) % q[2] # 0

\* str(v) of a float: "nan" for a missing value, else the sign, the integer part,
\* "." and the decimals (at least one)
str(q) ==
    IF ~IsFinite(q) THEN <<"n", "a", "n">>
    ELSE LET k    == IF Decimals(q) = 0 THEN 1 ELSE Decimals(q)
             m    == (Abs(q[1]) * Pow10(k)) \div q[2]
             frac == Tail(IntDigits(Pow10(k) + (m % Pow10(k))))
         IN  (IF q[1] < 0 THEN <<"-">> ELSE <<>>) \o IntDigits(m \div Pow10(k))
                 \o <<".">> \o frac

AllZeros(ds) == ds # <<>> /\ \A i \in 1..Len(ds) : ds[i] = "0"

\* the text without its optional leading minus
Unsigned(text) == IF text # <<>> /\ text[1] = "-" THEN Tail(text) ELSE text

\* LAT_RE = ^-?([1-8]?\d(\.\d+)?|90(\.0+)?)$
LAT_RE(text) ==
    LET p == split(Unsigned(text), ".")
    IN  /\ Len(p) <= 2
        /\ \/ /\ AllDigits(p[1])
              /\ \/ Len(p[1]) = 1
                 \/ Len(p[1]) = 2 /\ p[1][1] \in {"1", "2", "3", "4", "5", "6", "7", "8"}
              /\ Len(p) = 2 => AllDigits(p[2])
           \/ /\ p[1] = <<"9", "0">>
              /\ Len(p) = 2 => AllZeros(p[2])

\* LNG_RE = ^-?((1[0-7]\d)|(\d{1,2}))(\.\d+)?$|^-?180(\.0+)?$
LNG_RE(text) ==
    LET p == split(Unsigned(text), ".")
    IN  /\ Len(p) <= 2
        /\ \/ /\ AllDigits(p[1])
              /\ \/ Len(p[1]) \in {1, 2}
                 \/ /\ Len(p[1]) = 3
                    /\ p[1][1] = "1"
                    /\ p[1][2] \in {"0", "1", "2", "3", "4", "5", "6", "7"}
              /\ Len(p) = 2 => AllDigits(p[2])
           \/ /\ p[1] = <<"1", "8", "0">>
              /\ Len(p) = 2 => AllZeros(p[2])

\* is_valid_lat(v) for a text v: float(s) does not raise and the pattern matches
is_valid_lat(text) == float(text).ok /\ LAT_RE(text)

is_valid_lng(text) == float(text).ok /\ LNG_RE(text)

----------------------------------------------------------------------------
(* pages/04_Locations.py: the table and the page's handlers (SpecLoc).      *)
(* A row is [id, location_name, lat, lng, remark]; a missing number is NaN; *)
(* a remark is the sequence of its stamps, without user name and time.      *)

MaxRemarks == 2

LocNameOrder == <<"L1", "L2">>

LocRow(id, name, lat, lng, remark) ==
    [id |-> id, location_name |-> name, lat |-> lat, lng |-> lng, remark |-> remark]

\* load_locations_df(): the rows ordered by location_name
load_locations_df(table) ==
    LET named(n) == {r \in table : r.location_name = n}
        RECURSIVE Rows(_)
        Rows(i) == IF i > Len(LocNameOrder) THEN <<>>
                   ELSE (IF named(LocNameOrder[i]) = {} THEN <<>>
                         ELSE <<CHOOSE r \in named(LocNameOrder[i]) : TRUE>>) \o Rows(i + 1)
    IN  Rows(1)

\* ensure_loaded(): an empty locations_df is loaded from the database
ensure_loaded(df, table) == IF df = <<>> THEN load_locations_df(table) ELSE df

NextLocId(table) ==
    IF table = {} THEN 1 ELSE 1 + (CHOOSE i \in {r.id : r \in table} : \A r \in table : r.id <= i)

\* upsert(rows, on_conflict="location_name") of one payload
upsert_location(table, payload) ==
    IF \E r \in table : r.location_name = payload.location_name
    THEN {IF r.location_name = payload.location_name
          THEN [r EXCEPT !.lat = payload.lat, !.lng = payload.lng, !.remark = payload.remark]
          ELSE r : r \in table}
    ELSE table \cup {LocRow(NextLocId(table), payload.location_name, payload.lat,
                            payload.lng, payload.remark)}

RECURSIVE upsert_locations(_, _)
upsert_locations(table, rows) ==
    IF rows = <<>> THEN table
    ELSE upsert_locations(upsert_location(table, Head(rows)), Tail(rows))

\* update(updates).eq("id", row_id)
update_location_by_id(table, row_id, updates) ==
    {IF r.id = row_id
     THEN [r EXCEPT !.lat = IF updates.has_lat THEN updates.lat ELSE @,
                    !.lng = IF updates.has_lng THEN updates.lng ELSE @,
                    !.remark = updates.remark]
     ELSE r : r \in table}

\* the payload of a new location
NewPayload(name, lat, lng) ==
    [location_name |-> name, lat |-> lat, lng |-> lng, remark |-> <<"Added via website">>]

\* what a run wrote: the operation and the coordinates of the payload
Written(op, has_lat, lat, has_lng, lng) ==
    [op |-> op, has_lat |-> has_lat, lat |-> lat, has_lng |-> has_lng, lng |-> lng]

\* the state after a run: the reloaded frames, what was written, the errors shown
LocRun(table, df, orig, writes, errors) ==
    /\ locations_table' = table
    /\ locations_df' = df
    /\ original_df' = orig
    /\ loc_writes' = writes
    /\ loc_errors' = errors
    /\ UNCHANGED nonLocVars

\* the frames after ensure_loaded() at the top of a run
loaded_df == ensure_loaded(locations_df, locations_table)

loaded_orig == IF locations_df = <<>> THEN loaded_df ELSE original_df

\* a run of the page with no button pressed
OpenLocationsPage == LocRun(locations_table, loaded_df, loaded_orig, <<>>, 0)

\* "Refresh"
RefreshLocations ==
    LocRun(locations_table, load_locations_df(locations_table),
           load_locations_df(locations_table), <<>>, 0)

\* "Add Location": the three text inputs of the form
AddLocation(new_name, new_lat, new_lng) ==
    IF new_name = "" \/ ~(is_valid_lat(new_lat) /\ is_valid_lng(new_lng))
    THEN LocRun(locations_table, loaded_df, loaded_orig, <<>>, 1)
    ELSE LET payload == NewPayload(new_name, float(new_lat).v, float(new_lng).v)
             table   == upsert_location(locations_table, payload)
         IN  LocRun(table, load_locations_df(table), load_locations_df(table),
                    <<Written("Add Location", TRUE, payload.lat, TRUE, payload.lng)>>, 0)

\* the rows of an uploaded file that pass the checks of the import
import_rows(imp) ==
    SelectSeq(imp, LAMBDA r : r.location_name # ""
                                  /\ is_valid_lat(str(r.lat)) /\ is_valid_lng(str(r.lng)))

\* "Import to Database": the button is shown when some row of the file is valid
ImportToDatabase(imp) ==
    LET rows  == import_rows(imp)
        table == upsert_locations(locations_table,
                     [i \in 1..Len(rows) |->
                         NewPayload(rows[i].location_name, rows[i].lat, rows[i].lng)])
    IN  /\ rows # <<>>
        /\ LocRun(table, load_locations_df(table), load_locations_df(table),
                  [i \in 1..Len(rows) |->
                      Written("Import to Database", TRUE, rows[i].lat, TRUE, rows[i].lng)],
                  Len(imp) - Len(rows))

\* pd.notna of a number cell
notna(q) == ~IsNaN(q)

\* Save Edits, one row of the editor that has no id or an id unknown to original_df:
\* validated, then upserted by name.  st is [table, writes, errors].
SaveNewRow(st, row) ==
    IF row.location_name = "" THEN st
    ELSE IF ~(is_valid_lat(str(row.lat)) /\ is_valid_lng(str(row.lng)))
    THEN [st EXCEPT !.errors = @ + 1]
    ELSE [st EXCEPT
             !.table  = upsert_location(@, NewPayload(row.location_name, row.lat, row.lng)),
             !.writes = Append(@, Written("Save Edits (new row)", TRUE, row.lat,
                                          TRUE, row.lng))]

\* Save Edits, one row of the editor whose id is in original_df: o is the original
SaveExistingRow(st, row, o) ==
    LET lat_error == notna(row.lat) /\ ~is_valid_lat(str(row.lat))
        lng_error == notna(row.lng) /\ ~is_valid_lng(str(row.lng))
        lat_changed == notna(row.lat) /\ (IsNaN(o.lat) \/ row.lat # o.lat)
        lng_changed == notna(row.lng) /\ (IsNaN(o.lng) \/ row.lng # o.lng)
        stamp == IF lat_changed /\ lng_changed THEN "Lat changed; Lng changed"
                 ELSE IF lat_changed THEN "Lat changed" ELSE "Lng changed"
        updates == [has_lat |-> lat_changed, lat |-> row.lat,
                    has_lng |-> lng_changed, lng |-> row.lng,
                    remark  |-> Append(o.remark, stamp)]
        errors == st.errors + (IF lat_error THEN 1 ELSE 0) + (IF lng_error THEN 1 ELSE 0)
    IN  IF lat_changed \/ lng_changed
        THEN [table  |-> update_location_by_id(st.table, row.id, updates),
              writes |-> Append(st.writes, Written("Save Edits (existing row)", lat_changed,
                                                   row.lat, lng_changed, row.lng)),
              errors |-> errors]
        ELSE [st EXCEPT !.errors = errors]

\* the loop of Save Edits over the rows of the editor
RECURSIVE SaveRows(_, _, _)
SaveRows(st, edited, orig) ==
    IF edited = <<>> THEN st
    ELSE LET row  == Head(edited)
             known == {i \in 1..Len(orig) : orig[i].id = row.id}
         IN  SaveRows(IF known = {} THEN SaveNewRow(st, row)
                      ELSE SaveExistingRow(st, row, orig[CHOOSE i \in known : TRUE]),
                      Tail(edited), orig)

\* "Save Edits": edited is the content of the data editor
SaveEdits(edited) ==
    LET st == SaveRows([table |-> locations_table, writes |-> <<>>, errors |-> 0],
                       edited, loaded_orig)
    IN  /\ loaded_df # <<>>
        /\ \A i \in 1..Len(loaded_orig) : Len(loaded_orig[i].remark) < MaxRemarks
        /\ LocRun(st.table, load_locations_df(st.table), load_locations_df(st.table),
                  st.writes, st.errors)

\* what the user may type into a number cell of an existing row: nothing, or a value
CellEdits(values) == {[keep |-> TRUE, v |-> Zero]} \cup {[keep |-> FALSE, v |-> x] : x \in values}

\* rows typed into the empty line of the editor: they have no id (0)
InlineRows == {LocRow(0, "L2", lat, Q(20), <<>>) : lat \in {Q(10), Q(95)}}

\* the contents the editor can have for the frame df
EditedTables(df) ==
    { [i \in 1..Len(df) |->
          [df[i] EXCEPT !.lat = IF e[i][1].keep THEN @ ELSE e[i][1].v,
                        !.lng = IF e[i][2].keep THEN @ ELSE e[i][2].v]] \o extra :
      e \in [1..Len(df) -> CellEdits({Q(95)}) \X CellEdits({Q(200)})],
      extra \in {<<>>} \cup {<<r>> : r \in InlineRows} }

\* the text typed into the Lat and Lng inputs of the Add Location form
LatTexts == { <<"9", ".", "5">>, <<"9", "0", ".", "5">>, <<"a", "b", "c">> }

LngTexts == { <<"2", "0">>, <<"2", "0", "0">> }

\* the uploaded files: one or two rows of location_name, lat, lng
ImportFiles ==
    { <<[location_name |-> "L2", lat |-> Q(10), lng |-> Q(20)]>>,
      <<[location_name |-> "L2", lat |-> Q(95), lng |-> Q(20)],
        [location_name |-> "L1", lat |-> <<-179, 2>>, lng |-> Q(180)]>> }

InitLoc ==
    /\ locations_table \in {{}, {LocRow(1, "L1", Q(10), Q(20), <<>>)}}
    /\ locations_df = <<>>
    /\ original_df = <<>>
    /\ loc_writes = <<>>
    /\ loc_errors = 0
    /\ CalcIdle
    /\ DbIdle
    /\ SessIdle
    /\ RoutesIdle
    /\ LoadIdle
    /\ AppIdle
    /\ SharedIdle
    /\ TripsIdle

NextLoc ==
    \/ OpenLocationsPage
    \/ RefreshLocations
    \/ \E new_name \in {"", "L1"}, new_lat \in LatTexts, new_lng \in LngTexts :
           AddLocation(new_name, new_lat, new_lng)
    \/ \E imp \in ImportFiles : ImportToDatabase(imp)
    \/ \E edited \in EditedTables(loaded_df) : SaveEdits(edited)

SpecLoc == InitLoc /\ [][NextLoc]_vars

----------------------------------------------------------------------------
(* Claims about the Locations page (SpecLoc).                              *)

InLatRange(q) == IsFinite(q) /\ ~QLt(q, Q(-90)) /\ ~QGt(q, Q(90))

InLngRange(q) == IsFinite(q) /\ ~QLt(q, Q(-180)) /\ ~QGt(q, Q(180))

\* C9 as stated: every latitude and longitude that the Locations page writes to the
\* database lies in range (latitude in -90..90, longitude in -180..180), for Add
\* Location, Import to Database and Save Edits on new and on existing rows.
C9_WrittenCoordinatesInRange ==
    \A i \in 1..Len(loc_writes) :
        /\ loc_writes[i].has_lat => InLatRange(loc_writes[i].lat)
        /\ loc_writes[i].has_lng => InLngRange(loc_writes[i].lng)

\* C12 as stated: after an edit of the routes table made while a search filter is
\* active, every route that does not match the search text is still present and
\* unchanged in routes_data.
C12_HiddenRoutesKept ==
    (routes_edit.applied /\ routes_edit.search_route # <<>>) =>
        \A i \in 1..Len(routes_edit.before) :
            ~MatchesSearch(routes_edit.before[i], routes_edit.search_route) =>
                \E j \in 1..Len(session_state.routes_data) :
                    session_state.routes_data[j] = routes_edit.before[i]

----------------------------------------------------------------------------
(* SpecApp: one browser session.  Streamlit runs one script per request:   *)
(* app.py for the main page, pages/NN_Name.py alone for a page.  In this   *)
(* specification session_state holds only the keys assigned so far.        *)

MaxAppRuns == 2

\* `key in st.session_state`
Has(key) == key \in DOMAIN session_state

\* st.session_state.key = value
SetKey(s, key, value) ==
    [k \in DOMAIN s \cup {key} |-> IF k = key THEN value ELSE s[k]]

\* the tables and the factor that app.py creates
SessionData ==
    {"trips_data", "energy_consumption", "locations_data", "routes_data",
     "emission_factor"}

\* app.py 15-45: each missing key is created with its default
WithDefaults(s) ==
    [k \in DOMAIN s \cup DOMAIN EmptySession |->
        IF k \in DOMAIN s THEN s[k] ELSE EmptySession[k]]

RunCount(n) == IF n < MaxAppRuns THEN n + 1 ELSE n

\* app.py 47-87 without the default_trucks_loaded test
SeedDefaults(s, sample) ==
    LET s1 == IF s.energy_consumption = <<>>
              THEN SetKey(s, "energy_consumption", default_trucks) ELSE s
        s2 == SetKey(SetKey(s1, "truck_master_data", "truck_master"),
                     "default_trucks_loaded", TRUE)
    IN  IF s2.trips_data = <<>> /\ sample # <<>>
        THEN SetKey(s2, "trips_data", sample) ELSE s2

\* app.py that seeds on every run
RunAppSeedingEachRun(sample) ==
    LET s == WithDefaults(session_state)
    IN  /\ session_state' = SeedDefaults(s, sample)
        /\ seedings' = [energy |-> IF s.energy_consumption = <<>>
                                   THEN RunCount(seedings.energy) ELSE seedings.energy,
                        trips  |-> IF s.trips_data = <<>> /\ sample # <<>>
                                   THEN RunCount(seedings.trips) ELSE seedings.trips]
        /\ app_runs' = RunCount(app_runs)
        /\ last_run' = [script |-> "app.py", raised |-> FALSE]
        /\ UNCHANGED nonAppVars

\* one run of app.py; sample is data/sample_trips.csv, <<>> when the file is missing
RunApp(sample) ==
    LET s == WithDefaults(session_state)
        seeds == ~Has("default_trucks_loaded")
    IN  /\ session_state' = IF seeds THEN SeedDefaults(s, sample) ELSE s
        /\ seedings' = [energy |-> IF seeds /\ s.energy_consumption = <<>>
                                   THEN RunCount(seedings.energy) ELSE seedings.energy,
                        trips  |-> IF seeds /\ s.trips_data = <<>> /\ sample # <<>>
                                   THEN RunCount(seedings.trips) ELSE seedings.trips]
        /\ app_runs' = RunCount(app_runs)
        /\ last_run' = [script |-> "app.py", raised |-> FALSE]
        /\ UNCHANGED nonAppVars

\* a page script ends: with an AttributeError on st.session_state, or normally
PageEnds(script, raised, s) ==
    /\ session_state' = s
    /\ last_run' = [script |-> script, raised |-> raised]
    /\ UNCHANGED <<app_runs, seedings, nonAppVars>>

\* pages/01_Dashboard.py: creates trips_data, stops on an empty table
PageDashboard ==
    LET s == IF Has("trips_data") THEN session_state
             ELSE SetKey(session_state, "trips_data", <<>>)
    IN  PageEnds("01_Dashboard.py",
                 s.trips_data # <<>> /\ ~Has("energy_consumption"), s)

\* pages/02_Trips.py and pages/04_Locations.py read none of the session tables
PageTrips == PageEnds("02_Trips.py", FALSE, session_state)

PageLocations == PageEnds("04_Locations.py", FALSE, session_state)

\* pages/03_Trucks.py
PageTrucks ==
    IF ~Has("trips_data")
    THEN PageEnds("03_Trucks.py", TRUE, session_state)
    ELSE IF session_state.trips_data # <<>>
         THEN IF Has("energy_consumption") /\ Has("emission_factor")
              THEN PageEnds("03_Trucks.py", FALSE,
                            SetKey(session_state, "trucks_data",
                                   calculate_truck_metrics(
                                       session_state.trips_data,
                                       session_state.energy_consumption,
                                       session_state.emission_factor)))
              ELSE PageEnds("03_Trucks.py", TRUE, session_state)
         ELSE PageEnds("03_Trucks.py", ~Has("trucks_data"), session_state)

\* pages/05_Routes.py, rendered without a button pressed
PageRoutes ==
    PageEnds("05_Routes.py", ~(Has("routes_data") /\ Has("locations_data")),
             session_state)

\* the keys pages/06_Data_Import.py reads while it renders
DataImportReads ==
    {"energy_consumption", "emission_factor", "trips_data", "locations_data",
     "routes_data"}

Buttons == {"none", "Import Trip Data", "Clear Trip Data", "Clear Energy Data"}

\* pages/06_Data_Import.py, rendered and then run with one button pressed
PageDataImport(button, row) ==
    IF ~(DataImportReads \subseteq DOMAIN session_state)
    THEN /\ button = "none"
         /\ PageEnds("06_Data_Import.py", TRUE, session_state)
    ELSE CASE button = "Import Trip Data" ->
                /\ Len(session_state.trips_data) < MaxSessionTrips
                /\ PageEnds("06_Data_Import.py", FALSE,
                            SetKey(session_state, "trips_data",
                                   Append(session_state.trips_data, row)))
           [] button = "Clear Trip Data" ->
                PageEnds("06_Data_Import.py", FALSE,
                         SetKey(session_state, "trips_data", <<>>))
           [] button = "Clear Energy Data" ->
                PageEnds("06_Data_Import.py", FALSE,
                         SetKey(session_state, "energy_consumption", <<>>))
           [] OTHER -> PageEnds("06_Data_Import.py", FALSE, session_state)

\* pages/07_Export.py, rendered without a button pressed
PageExport == PageEnds("07_Export.py", ~Has("trips_data"), session_state)

\* pages/08_Debug.py, rendered without a button pressed
PageDebug ==
    PageEnds("08_Debug.py",
             ~({"trips_data", "energy_consumption", "locations_data", "routes_data"}
                   \subseteq DOMAIN session_state),
             session_state)

\* a fresh session: no key is set
InitApp ==
    /\ session_state = <<>>
    /\ trucks_page = NotRendered
    /\ AppIdle
    /\ CalcIdle
    /\ DbIdle
    /\ RoutesIdle
    /\ LoadIdle
    /\ LocIdle
    /\ SharedIdle
    /\ TripsIdle

NextApp ==
    \/ \E sample \in sample_trips : RunApp(sample)
    \/ PageDashboard
    \/ PageTrips
    \/ PageTrucks
    \/ PageLocations
    \/ PageRoutes
    \/ \E button \in Buttons : \E row \in SessionTripRows : PageDataImport(button, row)
    \/ PageExport
    \/ PageDebug

SpecApp == InitApp /\ [][NextApp]_vars

\* C13: a run of app.py in a session in which app.py has run before changes none
\* of trips_data, energy_consumption, locations_data, routes_data and
\* emission_factor, so a table the user cleared stays empty; the default energy
\* rows and the sample trips are each stored at most once in a session.
C13_RerunKeepsState ==
    [][/\ (app_runs > 0 /\ last_run'.script = "app.py") =>
              \A k \in SessionData : session_state'[k] = session_state[k]
       /\ seedings'.energy <= 1
       /\ seedings'.trips <= 1]_vars

\* app.py has run again after the energy table and the trip table were cleared
C13_Witness ==
    /\ last_run.script = "app.py"
    /\ app_runs = 2
    /\ seedings.energy = 1
    /\ seedings.trips = 1
    /\ Has("energy_consumption")
    /\ session_state.energy_consumption = <<>>
    /\ session_state.trips_data = <<>>

\* C14 as stated: no page script raises on a missing session key, whatever was
\* executed in the session before.
C14_NoPageRaises == ~last_run.raised

----------------------------------------------------------------------------
(* SpecLocShared: the Locations page open in several browser sessions that *)
(* work on the same `locations` table.  Each session has its own           *)
(* locations_df and original_df; a run of the page is one step.            *)

NumSessions == 2

MaxSaves == 3

Sessions == 1..NumSessions

\* the remark of the row with id 1 in a set or sequence of rows, <<>> without the row
RemarkIn(rows) ==
    IF \E r \in rows : r.id = 1 THEN (CHOOSE r \in rows : r.id = 1).remark ELSE <<>>

Range(seq) == {seq[i] : i \in 1..Len(seq)}

\* the state after a run of the page in session s
SharedRun(s, table, df, orig, saves) ==
    /\ locations_table' = table
    /\ session_dfs' = [session_dfs EXCEPT ![s] = df]
    /\ session_origs' = [session_origs EXCEPT ![s] = orig]
    /\ loc_saves' = saves
    /\ UNCHANGED nonSharedVars

\* session s opens the page or reruns it with no button pressed: ensure_loaded()
SessionOpensPage(s) ==
    LET df == ensure_loaded(session_dfs[s], locations_table)
    IN  SharedRun(s, locations_table, df,
                  IF session_dfs[s] = <<>> THEN df ELSE session_origs[s], loc_saves)

\* session s presses "Refresh"
SessionRefreshes(s) ==
    SharedRun(s, locations_table, load_locations_df(locations_table),
              load_locations_df(locations_table), loc_saves)

\* the contents of the editor of a session: one number cell of the row changed
SharedEdits(df) ==
    { [i \in 1..Len(df) |-> [df[i] EXCEPT !.lat = lat]] : lat \in {Q(11), Q(12)} }
        \cup { [i \in 1..Len(df) |-> [df[i] EXCEPT !.lng = lng]] : lng \in {Q(21), Q(22)} }

\* session s presses "Save Edits" with the editor holding edited
SessionSavesEdits(s, edited) ==
    LET df   == ensure_loaded(session_dfs[s], locations_table)
        orig == IF session_dfs[s] = <<>> THEN df ELSE session_origs[s]
        st   == SaveRows([table |-> locations_table, writes |-> <<>>, errors |-> 0],
                         edited, orig)
        after == RemarkIn(st.table)
    IN  /\ df # <<>>
        /\ edited \in SharedEdits(df)
        /\ Len(loc_saves) < MaxSaves
        /\ Len(RemarkIn(Range(orig))) < MaxRemarks
        /\ SharedRun(s, st.table, load_locations_df(st.table),
                     load_locations_df(st.table),
                     IF st.writes = <<>> THEN loc_saves
                     ELSE Append(loc_saves,
                                 [session |-> s,
                                  loaded  |-> RemarkIn(Range(orig)),
                                  stored  |-> RemarkIn(locations_table),
                                  stamp   |-> after[Len(after)]]))

InitLocShared ==
    /\ locations_table \in {{LocRow(1, "L1", Q(10), Q(20), remark)} :
                               remark \in {<<>>, <<"Added via website">>}}
    /\ session_dfs = [s \in Sessions |-> <<>>]
    /\ session_origs = [s \in Sessions |-> <<>>]
    /\ loc_saves = <<>>
    /\ locations_df = <<>>
    /\ original_df = <<>>
    /\ loc_writes = <<>>
    /\ loc_errors = 0
    /\ CalcIdle
    /\ DbIdle
    /\ SessIdle
    /\ RoutesIdle
    /\ LoadIdle
    /\ AppIdle
    /\ TripsIdle

NextLocShared ==
    \E s \in Sessions :
        \/ SessionOpensPage(s)
        \/ SessionRefreshes(s)
        \/ \E edited \in SharedEdits(ensure_loaded(session_dfs[s], locations_table)) :
               SessionSavesEdits(s, edited)

SpecLocShared == InitLocShared /\ [][NextLocShared]_vars

\* C15 as stated: when two sessions had loaded the same row and then each saved a
\* change of a different field, the remark of the row is the remark stored before
\* either save followed by the change stamps of both sessions.
C15_BothStampsKept ==
    \A j \in 2..Len(loc_saves) :
        LET first  == loc_saves[j - 1]
            second == loc_saves[j]
        IN  (/\ j = Len(loc_saves)
             /\ first.session # second.session
             /\ first.loaded = first.stored
             /\ second.loaded = first.stored
             /\ first.stamp # second.stamp)
            => RemarkIn(locations_table) = first.stored \o <<first.stamp, second.stamp>>

----------------------------------------------------------------------------
(* utils/data_processing.py, utils/calculations.py (routes),               *)
(* pages/07_Export.py (Trip Details)                                       *)

\* Series.fillna(0) on one element
fillna0(q) == IF IsNaN(q) THEN Zero ELSE q

\* aggregate_truck_performance: the row of truck_aggregates for plate p
truck_aggregates_row(trips_df, energy_df, emission_factor, p) ==
    LET g         == RowsOf(trips_df, p)
        total_km  == QSum(distance_km(g))
        total_tkm == QSum(tkm(g))
        kwh       == IF energy_df = <<>> THEN Zero
                     ELSE IF RowsOf(energy_df, p) # <<>> THEN avg_efficiency(energy_df, p)
                     ELSE NaN
        total_kwh == IF energy_df = <<>> THEN Zero
                     ELSE IF IsNaN(kwh) THEN fillna0(NaN) ELSE fillna0(QMul(total_km, kwh))
        kg_co2    == IF energy_df = <<>> THEN Zero ELSE QMul(total_kwh, emission_factor)
    IN  [ plate          |-> p,
          make           |-> "Electric Truck",
          total_trips    |-> count_date(g),
          total_km       |-> total_km,
          kwh_per_km     |-> kwh,
          total_kwh      |-> total_kwh,
          total_tkm      |-> total_tkm,
          kg_co2         |-> kg_co2,
          kwh_per_tkm    |-> IF energy_df # <<>>
                             THEN kwh_per_tkm_of(total_kwh, total_tkm) ELSE Zero,
          kg_co2_per_tkm |-> IF energy_df # <<>>
                             THEN kg_co2_per_tkm_of(kg_co2, total_tkm) ELSE Zero,
          kg_co2_per_km  |-> IF energy_df # <<>>
                             THEN kg_co2_per_km_of(kg_co2, total_km) ELSE Zero ]

aggregate_truck_performance(trips_df, energy_df, emission_factor) ==
    IF trips_df = <<>> THEN <<>>
    ELSE LET ps == SortedPlates(trips_df)
         IN  [i \in 1..Len(ps) |->
                 truck_aggregates_row(trips_df, energy_df, emission_factor, ps[i])]

\* the (from_location, to_location) keys in the order groupby sorts them
RouteKeyOrder == <<<<"L1", "L2">>, <<"L1", "L3">>>>

TripsOnRoute(trips_data, key) ==
    SelectSeq(trips_data, LAMBDA r : r.from_location = key[1] /\ r.to_location = key[2])

\* calculate_route_efficiency: the row of route_stats for one route
route_stats_row(trips_data, key) ==
    LET g                == TripsOnRoute(trips_data, key)
        total_cargo_tons == Round(QSum(tons_loaded(g)), 2)
        avg_cargo_tons   == Round(QMean(tons_loaded(g)), 2)
        first_distance   == Round(Q(g[1].distance_km), 2)
    IN  [ from_location    |-> key[1],
          to_location      |-> key[2],
          trip_count       |-> count_date(g),
          total_cargo_tons |-> total_cargo_tons,
          avg_cargo_tons   |-> avg_cargo_tons,
          distance_km      |-> first_distance,
          trucks_used      |-> nunique(Column(g, "plate_number")),
          total_tkm        |-> QMul(total_cargo_tons, first_distance),
          avg_utilization  |-> avg_cargo_tons,
          frequency_per_month |-> Q(count_date(g)) ]

calculate_route_efficiency(trips_data, routes_data) ==
    IF trips_data = <<>> \/ routes_data = <<>> THEN <<>>
    ELSE LET keys == SelectSeq(RouteKeyOrder,
                               LAMBDA k : TripsOnRoute(trips_data, k) # <<>>)
         IN  [i \in 1..Len(keys) |-> route_stats_row(trips_data, keys[i])]

\* 07_Export.py 119-131: the efficiency used for one trip, 1.0 by default
truck_efficiency(trip, energy_consumption) ==
    IF energy_consumption # <<>> /\ RowsOf(energy_consumption, trip.plate_number) # <<>>
    THEN avg_efficiency(energy_consumption, trip.plate_number)
    ELSE Q(1)

\* the Trip Details sheet: the trips with the columns trip_kwh and trip_co2_kg
export_trips(filtered_data, energy_consumption, emission_factor) ==
    [i \in 1..Len(filtered_data) |->
        LET trip == filtered_data[i]
            trip_kwh == QMul(Q(trip.distance_km), truck_efficiency(trip, energy_consumption))
        IN  [ plate_number |-> trip.plate_number,
              distance_km  |-> trip.distance_km,
              trip_kwh     |-> QMul(Q(trip.distance_km), Q(1)),
              trip_co2_kg  |-> QMul(trip_kwh, emission_factor) ]]

----------------------------------------------------------------------------
(* SpecFleet: the per-truck, per-customer, per-route and per-trip figures  *)
(* on trips of two trucks, of which truck B never has an energy record.    *)

FleetTripRows ==
    [date : {"2024-01-05"}, customer : Customers, plate_number : {"A", "B"},
     distance_km : {2, 5}, tons_loaded : {3},
     from_location : {"L1"}, to_location : {"L2", "L3"}]

\* the energy tables: none, one record, two records of truck A and one of truck C
FleetEnergyTables ==
    { <<>>,
      <<[plate_number |-> "A", period |-> "2024-01", kwh_per_km |-> Q(1)]>>,
      <<[plate_number |-> "A", period |-> "2024-01", kwh_per_km |-> Q(1)],
        [plate_number |-> "A", period |-> "2024-02", kwh_per_km |-> Q(3)],
        [plate_number |-> "C", period |-> "2024-01", kwh_per_km |-> Q(4)]>> }

\* the routes table handed to calculate_route_efficiency
FleetRoutes ==
    <<[from_location_name |-> "L1", to_location_name |-> "L2", km_distance |-> Q(2),
       source |-> "Manual"]>>

InitFleet ==
    /\ calc_in \in [trips  : SeqsUpTo(FleetTripRows, MaxTrips),
                    energy : FleetEnergyTables,
                    ef     : EmissionFactors]
    /\ calc_out = NoResult
    /\ DbIdle
    /\ SessIdle
    /\ RoutesIdle
    /\ LoadIdle
    /\ LocIdle
    /\ AppIdle
    /\ SharedIdle
    /\ TripsIdle

AggregateTruckPerformance ==
    /\ calc_out = NoResult
    /\ calc_out' = [op |-> "aggregate_truck_performance",
                    value |-> aggregate_truck_performance(calc_in.trips, calc_in.energy,
                                                          calc_in.ef)]
    /\ UNCHANGED <<calc_in, nonCalcVars>>

RouteEfficiency ==
    /\ calc_out = NoResult
    /\ calc_out' = [op |-> "route_efficiency",
                    value |-> calculate_route_efficiency(calc_in.trips, FleetRoutes)]
    /\ UNCHANGED <<calc_in, nonCalcVars>>

\* 07_Export.py: the Trip Details sheet, written when the period has trips
TripDetails ==
    /\ calc_out = NoResult
    /\ calc_in.trips # <<>>
    /\ calc_out' = [op |-> "trip_details",
                    value |-> export_trips(calc_in.trips, calc_in.energy, calc_in.ef)]
    /\ UNCHANGED <<calc_in, nonCalcVars>>

NextFleet ==
    \/ TruckMetrics
    \/ FleetKpis
    \/ AggregateTruckPerformance
    \/ RouteEfficiency
    \/ TripDetails

SpecFleet == InitFleet /\ [][NextFleet]_vars

\* the plates that have a record in the energy table
EnergyPlates(energy) == {energy[i].plate_number : i \in 1..Len(energy)}

\* the sum and the number of the kwh_per_km values of the records of plate p
KwhSum(energy, p) ==
    QSum([i \in 1..Len(RowsOf(energy, p)) |-> RowsOf(energy, p)[i].kwh_per_km])

OwnMean(energy, p) == QDiv(KwhSum(energy, p), Q(Len(RowsOf(energy, p))))

\* the mean over the trucks of the energy table of each truck's own mean
MeanOfTruckMeans(energy) ==
    LET ps == SelectSeq(PlateOrder, LAMBDA p : p \in EnergyPlates(energy))
    IN  QDiv(QSum([i \in 1..Len(ps) |-> OwnMean(energy, ps[i])]), Q(Len(ps)))

\* C16: with a non-empty energy table calculate_truck_metrics gives a truck without
\* an energy record the mean of the per-truck means of the trucks in the energy
\* table as kwh_per_km, a truck with records its own mean, and derives total_kwh
\* and kg_co2 from that value.
C16_FleetAverageFilled ==
    (calc_out.op = "truck_metrics" /\ calc_in.energy # <<>>) =>
        \A i \in 1..Len(calc_out.value) :
            LET row == calc_out.value[i]
                expected == IF row.plate \in EnergyPlates(calc_in.energy)
                            THEN OwnMean(calc_in.energy, row.plate)
                            ELSE MeanOfTruckMeans(calc_in.energy)
            IN  /\ row.kwh_per_km = expected
                /\ row.total_kwh = QMul(row.total_km, expected)
                /\ row.kg_co2 = QMul(QMul(row.total_km, expected), calc_in.ef)

\* truck B, which has trips and no record, got the mean 3 of the means 2 (truck A)
\* and 4 (truck C), next to truck A with its own mean
C16_Witness ==
    /\ calc_out.op = "truck_metrics"
    /\ Len(calc_in.energy) = 3
    /\ Len(calc_out.value) = 2
    /\ calc_out.value[1].plate = "A"
    /\ calc_out.value[1].kwh_per_km = Q(2)
    /\ calc_out.value[2].plate = "B"
    /\ calc_out.value[2].kwh_per_km = Q(3)
    /\ calc_out.value[2].total_kwh = Q(15)

QAbs(a) == IF QLt(a, Zero) THEN QNeg(a) ELSE a

\* the error that rounding each of n figures to two decimals can add up to
RoundingSlack(n) == <<n, 200>>

\* C17 as stated: with a non-empty energy table the total_emissions_kg of the
\* customers of the trips add up to the total_emissions_kg of the fleet, up to
\* rounding.
C17_CustomersAddUpToFleet ==
    (calc_out.op = "fleet_kpis" /\ calc_in.trips # <<>> /\ calc_in.energy # <<>>) =>
        LET cs == SelectSeq(<<"X", "Y">>,
                            LAMBDA c : customer_trips_of(calc_in.trips, c) # <<>>)
            by_customer ==
                QSum([i \in 1..Len(cs) |->
                         calculate_customer_emissions(calc_in.trips, calc_in.energy,
                                                      cs[i], calc_in.ef).total_emissions_kg])
        IN  ~QGt(QAbs(QSub(by_customer, calc_out.value.total_emissions_kg)),
                 RoundingSlack(Len(cs) + 1))

\* the figures of a per-truck row that the two implementations share
TruckFigures ==
    {"plate", "total_trips", "total_km", "total_tkm", "kwh_per_km", "total_kwh",
     "kg_co2", "kwh_per_tkm", "kg_co2_per_tkm", "kg_co2_per_km"}

\* C18 as stated: aggregate_truck_performance returns the rows of
\* calculate_truck_metrics: the same plates with the same figures.
C18_ImplementationsAgree ==
    calc_out.op = "aggregate_truck_performance" =>
        LET other == calculate_truck_metrics(calc_in.trips, calc_in.energy, calc_in.ef)
        IN  /\ Len(calc_out.value) = Len(other)
            /\ \A i \in 1..Len(other) :
                   \A f \in TruckFigures : calc_out.value[i][f] = other[i][f]

\* C19 as stated: in the Trip Details sheet trip_kwh is the distance times the mean
\* kwh_per_km of the truck (1.0 without a record) and trip_co2_kg is trip_kwh times
\* the emission factor.
C19_TripCo2FromTripKwh ==
    calc_out.op = "trip_details" =>
        \A i \in 1..Len(calc_out.value) :
            LET row == calc_out.value[i]
                own == IF row.plate_number \in EnergyPlates(calc_in.energy)
                       THEN OwnMean(calc_in.energy, row.plate_number) ELSE Q(1)
            IN  /\ row.trip_kwh = QMul(Q(row.distance_km), own)
                /\ row.trip_co2_kg = QMul(row.trip_kwh, calc_in.ef)

\* C20 as stated: total_tkm of a route is the sum of tons_loaded x distance_km over
\* the trips of the route.
C20_RouteTkmIsSum ==
    calc_out.op = "route_efficiency" =>
        \A i \in 1..Len(calc_out.value) :
            LET row == calc_out.value[i]
            IN  row.total_tkm
                    = QSum(tkm(TripsOnRoute(calc_in.trips,
                                            <<row.from_location, row.to_location>>)))

----------------------------------------------------------------------------
(* SpecTrips: the reruns of pages/02_Trips.py.  One rerun is one step: the *)
(* Refresh button, then the call of _load_all_imports() through            *)
(* st.cache_data(ttl=300).  The cache belongs to the server process, so a  *)
(* rerun of any session is a rerun here.                                   *)

TripsTTL == 300

TripsTickSeconds == 150

MaxTripsTime == 450

MaxImportRows == 2

\* what the body of _load_all_imports does with the database as it is:
\* raises without credentials or when both attempts raise, else returns the table
\* and the source that answered
LoadOutcome(db) ==
    IF ~db.creds \/ ~db.up
    THEN [raised |-> TRUE, result |-> <<>>]
    ELSE [raised |-> FALSE,
          result |-> <<db.rows, IF db.tms_exposed THEN Sources[1] ELSE Sources[2]>>]

\* the cache entry is served while it is younger than the ttl
CacheHit(cache, t) == cache.at >= 0 /\ t - cache.at < TripsTTL

\* the state after a rerun whose load found the cache as `cache`
TripsRerunEnds(refresh, cache) ==
    LET hit == CacheHit(cache, trips_clock)
        out == LoadOutcome(trips_db)
        raised == ~hit /\ out.raised
        result == IF hit THEN cache.result ELSE out.result
    IN  /\ trips_cache' = IF hit THEN cache
                          ELSE IF out.raised THEN NoCached
                          ELSE [at |-> trips_clock, result |-> out.result]
        /\ trips_rerun' = [ran |-> TRUE, refresh |-> refresh, served |-> hit,
                           queried |-> ~hit /\ trips_db.creds,
                           raised |-> raised, result |-> result, at |-> trips_clock,
                           prev |-> trips_cache,
                           after_failure |-> trips_rerun.raised]
        /\ trips_page' = IF raised THEN "error" ELSE "analytics"
        /\ UNCHANGED <<trips_clock, trips_db, nonTripsVars>>

\* a rerun in which Refresh does not clear the cache
RerunTripsPageKeepingCache(refresh) == TripsRerunEnds(refresh, trips_cache)

\* a rerun of the page; refresh: the Refresh button was pressed
RerunTripsPage(refresh) ==
    TripsRerunEnds(refresh, IF refresh THEN NoCached ELSE trips_cache)

\* time passes
TripsTick ==
    /\ trips_clock + TripsTickSeconds <= MaxTripsTime
    /\ trips_clock' = trips_clock + TripsTickSeconds
    /\ UNCHANGED <<trips_cache, trips_db, trips_rerun, trips_page, nonTripsVars>>

\* the database changes: rows are imported or deleted, it becomes unreachable or
\* reachable again
ImportsChange(up, rows) ==
    /\ <<up, rows>> # <<trips_db.up, trips_db.rows>>
    /\ trips_db' = [trips_db EXCEPT !.up = up, !.rows = rows]
    /\ UNCHANGED <<trips_cache, trips_clock, trips_rerun, trips_page, nonTripsVars>>

InitTrips ==
    /\ trips_cache = NoCached
    /\ trips_clock = 0
    /\ trips_db \in [creds : BOOLEAN, up : BOOLEAN, tms_exposed : BOOLEAN,
                     rows : 0..MaxImportRows]
    /\ trips_rerun = NoRerun
    /\ LoadIdle
    /\ CalcIdle
    /\ DbIdle
    /\ SessIdle
    /\ RoutesIdle
    /\ LocIdle
    /\ AppIdle
    /\ SharedIdle

NextTrips ==
    \/ \E refresh \in BOOLEAN : RerunTripsPage(refresh)
    \/ TripsTick
    \/ \E up \in BOOLEAN, rows \in 0..MaxImportRows : ImportsChange(up, rows)

SpecTrips == InitTrips /\ [][NextTrips]_vars

====
